---- MODULE Spec2Model ----
(***************************************************************************)
(* A model of the normalisation-and-orchestration core of                  *)
(* ai-remote-control:                                                      *)
(*   - ChatService.processMessageStream (server/src/services/chat.service) *)
(*   - TaskExecutor (server/src/executor/task.executor)                    *)
(*   - the DeepSeek, Claude and MiniMax adapters' stream()                 *)
(* Text is a sequence of tokens; a tool call's argument mapping is the     *)
(* ordered sequence of its <<key, value>> pairs (a JS object keeps         *)
(* insertion order, and JSON.stringify follows it).                        *)
(***************************************************************************)
EXTENDS Integers, Sequences, FiniteSets, TLC

\* ------------------------------------------------------------ constants
\* const maxRounds = 5
maxRounds == 5
\* this.getMessages(sessionId, 20)
ContextLimit == 20

\* --------------------------------------------------------------- bounds
\* tasks created through the executor's interface
MaxTasks == 2
\* vendor events one adapter stream receives
MaxEvents == 4
\* chunks the provider delivers during one user message (profile "wide")
MaxChunks == 4
\* tool calls one provider turn delivers (profile "long")
LongCalls == 21
MaxRetryArg == 4
MaxCallTurns == 2
MaxTextLen == 4
MaxMsgs == 3
MaxBatch == 3
MaxSocketCalls == 2
MaxSends == 3

\* ------------------------------------------------------------ text
\* tokens of a text: "a" a visible character, " " white space,
\* "<tc>" = <minimax:tool_call>, "</tc>" = </minimax:tool_call>

RECURSIVE IndexFrom(_, _, _)
\* least i >= from with s[i] = tok, 0 when there is none
IndexFrom(s, tok, from) ==
  IF from > Len(s) THEN 0
  ELSE IF s[from] = tok THEN from
  ELSE IndexFrom(s, tok, from + 1)

RECURSIVE StripFrom(_, _)
\* .replace(/<minimax:tool_call>.*?<\/minimax:tool_call>/gs, '') from position i
StripFrom(s, i) ==
  IF i > Len(s) THEN <<>>
  ELSE IF s[i] = "<tc>" /\ IndexFrom(s, "</tc>", i + 1) # 0
       THEN StripFrom(s, IndexFrom(s, "</tc>", i + 1) + 1)
       ELSE <<s[i]>> \o StripFrom(s, i + 1)

StripMarkup(s) == StripFrom(s, 1)

RECURSIVE TrimLeft(_)
TrimLeft(s) == IF s # <<>> /\ Head(s) = " " THEN TrimLeft(Tail(s)) ELSE s

RECURSIVE TrimRight(_)
TrimRight(s) ==
  IF s # <<>> /\ s[Len(s)] = " " THEN TrimRight(SubSeq(s, 1, Len(s) - 1)) ELSE s

\* String.prototype.trim
Trim(s) == TrimRight(TrimLeft(s))

\* assistantContent.replace(...).trim()
CleanContent(s) == Trim(StripMarkup(s))

\* ------------------------------------------------------------ JSON
RECURSIVE StringifyPairs(_)
StringifyPairs(ps) ==
  IF ps = <<>> THEN <<>>
  ELSE <<ps[1][1], ":", ps[1][2]>>
       \o (IF Len(ps) > 1 THEN <<",">> ELSE <<>>)
       \o StringifyPairs(Tail(ps))

\* JSON.stringify of an object given as the ordered sequence of its pairs
Stringify(ps) == <<"{">> \o StringifyPairs(ps) \o <<"}">>

\* argument text is a sequence of the tokens "{", "}", "," and "p", where "p"
\* stands for the member "path":"p"
RECURSIVE IsMembers(_)
\* p ("," p)*
IsMembers(t) ==
  /\ t # <<>>
  /\ t[1] = "p"
  /\ \/ Len(t) = 1
     \/ Len(t) >= 3 /\ t[2] = "," /\ IsMembers(SubSeq(t, 3, Len(t)))

\* JSON.parse succeeds
ParseOK(t) ==
  /\ Len(t) >= 2
  /\ t[1] = "{"
  /\ t[Len(t)] = "}"
  /\ Len(t) = 2 \/ IsMembers(SubSeq(t, 2, Len(t) - 1))

\* JSON.parse of a text it accepts: the object's pairs (a repeated key is one)
ParseJSON(t) == IF Len(t) = 2 THEN <<>> ELSE << <<"path", "p">> >>

\* currentToolCall.arguments || '{}'
OrEmptyObject(t) == IF t = <<>> THEN <<"{", "}">> ELSE t

\* ------------------------------------------------------------ values
NoText == <<>>
NoCall == [id |-> "-", name |-> "-", arguments |-> <<>>]
ArgsX == <<>>
ArgsY == << <<"path", "p">> >>
CallA == [id |-> "c1", name |-> "A", arguments |-> ArgsX]
CallAY == [id |-> "c2", name |-> "A", arguments |-> ArgsY]
CallB == [id |-> "c3", name |-> "B", arguments |-> ArgsX]
Calls == {CallA, CallAY, CallB}

\* ToolResult {success, data?, error?} as the ordered pairs JSON.stringify sees
ResultOk == << <<"success", "true">>, <<"data", "d">> >>
ResultFail == << <<"success", "false">>, <<"error", "e">> >>

\* the failure results ToolRegistry.execute builds itself
ResultMissing == << <<"success", "false">>, <<"error", "no such tool">> >>
ResultThrown == << <<"success", "false">>, <<"error", "tool failed: e">> >>

Success(r) == r[1][2] = "true"

\* the tools the registry holds, and a call of a tool it does not hold
Registered == {"A", "B"}
CallZ == [id |-> "c4", name |-> "Z", arguments |-> ArgsX]

\* what a tool implementation does when called
ToolBehaviours == {"ok", "fail", "throws"}

\* a settled promise
Resolved(v) == [rejects |-> FALSE, value |-> v]
Rejected == [rejects |-> TRUE, value |-> <<>>]

\* the error thrown by the tool leaves ToolRegistry.execute
registryExecute_uncaught(name, behaviour) ==
  IF name \notin Registered THEN Resolved(ResultMissing)
  ELSE CASE behaviour = "ok" -> Resolved(ResultOk)
         [] behaviour = "fail" -> Resolved(ResultFail)
         [] OTHER -> Rejected

\* ToolRegistry.execute
registryExecute(name, behaviour) ==
  IF name \notin Registered THEN Resolved(ResultMissing)
  ELSE CASE behaviour = "ok" -> Resolved(ResultOk)
         [] behaviour = "fail" -> Resolved(ResultFail)
         [] OTHER -> Resolved(ResultThrown)

NoTask == [status |-> "none", params |-> NoCall, result |-> <<>>]

TaskIds == 1..MaxTasks

\* stream() before its first event
NoAdapter ==
  [currentToolCall |-> <<>>,
   hasYieldThinking |-> FALSE,
   fullTextContent |-> <<>>,
   out |-> <<>>,
   status |-> "open"]

sessionId == "s1"
createdId == "session-new"
UserText == <<"a">>

\* ------------------------------------------------------------ state
VARIABLES
  profile,           \* what the provider and the tools may do in this run
  pc,                \* position of processMessageStream
  sessions,          \* ChatService.sessions: id -> message log
  currentRound,
  messages,          \* const messages = this.getMessages(sessionId, 20)
  handed,            \* the list handed to the latest aiService.stream call
  assistantContent,
  pendingToolCalls,
  followUpContent,
  newToolCalls,
  idx,               \* position of the for..of loop over the batch
  task,              \* the Task of the call being executed
  nChunks,           \* chunks the provider has delivered in this run
  turnChunks,        \* chunks the current stream has delivered
  bodyEntries,       \* times the loop body was entered
  streamCalls,       \* aiService.stream invocations so far
  executed,          \* the calls dispatched to the executor, in order
  batchResults,      \* the tool-result messages of the batch last executed
  turns,             \* the finished turns: [text, calls]
  events,            \* the callbacks invoked, in order
  \* TaskExecutor, driven through its own interface
  tasks,             \* the Task objects: id -> task ("none" before createTask)
  runningTasks,      \* TaskExecutor.runningTasks: the ids held by the Map
  awaiting,          \* the ids whose execute is waiting for its tool
  trail,             \* per task: every status it was given, in order
  notes,             \* per task: the notifications sent about it, in order
  toolRuns,          \* per task: what its tool did ("" before the tool returned)
  cancelLog,         \* the cancelTask calls on pending and running tasks:
                     \* <<id, status found, value returned>>
  \* one adapter stream
  provider,          \* the adapter whose stream() runs
  adapter,           \* the locals of stream() and the chunks yielded so far
  wire,              \* the vendor events received so far
  \* one BaseAIProvider.retry call
  retry,             \* its arguments, its locals and what fn did so far
  \* two messages of one session on the socket
  inflight,          \* per message: where its processMessageStream call stands
  sessionLog,        \* the session's log: <<message, role>> per entry
  \* one cleaning of an accumulated assistant text
  cleaning,          \* the text, and the message appended for it
  \* one start of the process
  boot,              \* the environment, and how far the start has come
  \* one request of an adapter
  request,           \* the list given to AIService.stream, and the body sent to the vendor
  \* one TaskExecutor.executeToolCalls call
  toolBatch,         \* the calls given, the loop position, the calls dispatched, the results
  \* two connected client sockets
  sockets,           \* per client socket, its message handler and the events delivered to it
  \* the browser client of one session
  client             \* the useChat state, its sendMessage calls, the socket in both directions

chatVars == <<profile, pc, sessions, currentRound, messages, handed,
              assistantContent, pendingToolCalls, followUpContent, newToolCalls,
              idx, task, nChunks, turnChunks, bodyEntries, streamCalls, executed,
              batchResults, turns, events>>
execVars == <<tasks, runningTasks, awaiting, trail, notes, toolRuns, cancelLog>>
adapterVars == <<provider, adapter, wire>>
retryVars == <<retry>>
twoVars == <<inflight, sessionLog>>
cleanVars == <<cleaning>>
bootVars == <<boot>>
requestVars == <<request>>
batchVars == <<toolBatch>>
socketVars == <<sockets>>
clientVars == <<client>>
sideVars == <<retryVars, twoVars, cleanVars, bootVars, requestVars, batchVars, socketVars, clientVars>>
vars == <<chatVars, execVars, adapterVars, sideVars>>

\* ------------------------------------------------------------ ChatService
LastN(s, n) == IF Len(s) <= n THEN s ELSE SubSeq(s, Len(s) - n + 1, Len(s))

\* ChatService.createSession: the new session gets an id of its own
createSession(ss) == (createdId :> <<>>) @@ ss

\* ChatService.addMessage; timestamp is the insertion order
addMessage(ss, sid, role, content) ==
  IF sid \in DOMAIN ss
  THEN [ss EXCEPT ![sid] =
          Append(@, [role |-> role, content |-> content, timestamp |-> Len(@) + 1])]
  ELSE ss

\* ChatService.getMessages
getMessages(ss, sid, limit) ==
  IF sid \notin DOMAIN ss THEN <<>>
  ELSE IF limit > 0 THEN LastN(ss[sid], limit)
  ELSE ss[sid]

Log == getMessages(sessions, sessionId, 0)

\* `工具 ${toolCall.name} 执行结果: ${JSON.stringify(result.result)}`
toolResultMessage(call, result) == <<"tool", call.name, "result:">> \o Stringify(result)

\* ------------------------------------------------------------ environment
Profiles == {"wide", "busy", "long", "mixed"}

\* the calls collected from the stream being consumed
TurnCalls == IF pc = "stream1" THEN pendingToolCalls ELSE newToolCalls

\* a chunk carries a text delta, or a finalized tool call (the last chunk or
\* not), or only the final marker: the shapes the adapters yield
ChunkShapes ==
  {c \in [content : {NoText, <<"a">>, <<" ">>},
          toolCall : {NoCall} \cup Calls,
          isComplete : BOOLEAN] :
     /\ c.content = NoText \/ (c.toolCall = NoCall /\ ~c.isComplete)
     /\ c.content # NoText \/ c.toolCall # NoCall \/ c.isComplete}

WideChunks ==
  {c \in ChunkShapes :
     nChunks < MaxChunks}

\* every turn: a text delta, then one tool call with the final marker
BusyChunks ==
  IF turnChunks = 0
  THEN {[content |-> <<"a">>, toolCall |-> NoCall, isComplete |-> FALSE]}
  ELSE {[content |-> NoText, toolCall |-> CallA, isComplete |-> TRUE]}

LongChunks ==
  {c \in [content : {NoText}, toolCall : {NoCall, CallA}, isComplete : BOOLEAN] :
     /\ c.isComplete = (c.toolCall = NoCall)
     /\ c.toolCall # NoCall => Len(TurnCalls) < LongCalls}

\* a turn is a text delta or nothing, then a tool call with the final marker
\* or the final marker alone
MixedChunks ==
  IF turnChunks = 0
  THEN {[content |-> <<"a">>, toolCall |-> NoCall, isComplete |-> FALSE],
        [content |-> NoText, toolCall |-> CallA, isComplete |-> TRUE]}
  ELSE {[content |-> NoText, toolCall |-> CallA, isComplete |-> TRUE],
        [content |-> NoText, toolCall |-> NoCall, isComplete |-> TRUE]}

\* the chunks the provider's stream may deliver next
ProviderChunks ==
  CASE profile = "wide" -> WideChunks
    [] profile = "busy" -> BusyChunks
    [] profile = "mixed" -> MixedChunks
    [] OTHER -> LongChunks

\* the results a tool may return
ToolResults == IF profile \in {"long", "mixed"} THEN {ResultOk} ELSE {ResultOk, ResultFail}

\* ------------------------------------------------------------ Init
\* the executor before any task was created
ExecInit ==
  /\ tasks = [t \in TaskIds |-> NoTask]
  /\ runningTasks = {}
  /\ awaiting = {}
  /\ trail = [t \in TaskIds |-> <<>>]
  /\ notes = [t \in TaskIds |-> <<>>]
  /\ toolRuns = [t \in TaskIds |-> ""]
  /\ cancelLog = {}

\* no adapter stream
AdapterOff ==
  /\ provider = "none"
  /\ adapter = NoAdapter
  /\ wire = <<>>

\* no retry call is running
NoRetry == [maxRetries |-> 0, delayMs |-> 0, i |-> 0, pc |-> "off",
            lastError |-> "undefined", attempts |-> <<>>, delays |-> <<>>,
            settled |-> "-"]

\* the messages a client sends for the one session
Messages == 1..2

\* the handler of a message that has not arrived
NoHandler == [pc |-> "idle", currentRound |-> 0, turns |-> 0]

\* nothing is being cleaned
NoCleaning == [text |-> <<>>, pc |-> "off", content |-> <<>>]

\* no process is starting
NoBoot == [env |-> [AI_PROVIDER |-> "unset", AI_API_KEY |-> "unset",
                    AI_MODEL |-> "unset"],
           pc |-> "off", error |-> "-"]

RetryOff == retry = NoRetry
TwoOff == inflight = [m \in Messages |-> NoHandler] /\ sessionLog = <<>>
CleanOff == cleaning = NoCleaning
BootOff == boot = NoBoot

\* contents are numbered; no content, and the system prompt
NoContent == -1
systemPrompt == 0

\* no request is being built
NoRequest == [provider |-> "none", messages |-> <<>>, pc |-> "off",
              system |-> NoContent, sent |-> <<>>]

RequestOff == request = NoRequest

\* no executeToolCalls call is running
NoBatch == [calls |-> <<>>, i |-> 0, results |-> <<>>, dispatched |-> <<>>,
            pc |-> "off"]

BatchOff == toolBatch = NoBatch

\* the client sockets, each with a session of its own
Sockets == {"A", "B"}

\* no socket has sent a message
NoSockets == [s \in Sockets |-> [pc |-> "off", calls |-> 0, received |-> <<>>]]

SocketsOff == sockets = NoSockets

\* the hook is not mounted
NoClient == [pc |-> "off", isStreaming |-> FALSE, currentSessionId |-> "null",
             calls |-> 0, creating |-> 0, sent |-> 0, ended |-> 0,
             toServer |-> <<>>, toClient |-> <<>>, serving |-> 0]

ClientOff == client = NoClient

SideOff == RetryOff /\ TwoOff /\ CleanOff /\ BootOff /\ RequestOff /\ BatchOff /\ SocketsOff /\ ClientOff

Init ==
  /\ ExecInit
  /\ AdapterOff
  /\ SideOff
  /\ profile \in Profiles
  /\ pc = "begin"
  /\ sessions \in
       IF profile = "wide"
       THEN {(sessionId :> <<>>), [x \in {} |-> <<>>]}
       ELSE {(sessionId :> <<>>)}
  /\ currentRound = 0
  /\ messages = <<>>
  /\ handed = <<>>
  /\ assistantContent = <<>>
  /\ pendingToolCalls = <<>>
  /\ followUpContent = <<>>
  /\ newToolCalls = <<>>
  /\ idx = 0
  /\ task = NoTask
  /\ nChunks = 0
  /\ turnChunks = 0
  /\ bodyEntries = 0
  /\ streamCalls = 0
  /\ executed = <<>>
  /\ batchResults = <<>>
  /\ turns = <<>>
  /\ events = <<>>

\* ------------------------------------------------------------ actions
\* the loop test lets one round too many in
LoopCondition_inclusive == currentRound <= maxRounds

\* the loop test stops one round early
LoopCondition_early == currentRound + 1 < maxRounds

\* while (currentRound < maxRounds)
LoopCondition == currentRound < maxRounds

\* processMessageStream, lines 121-136: session lookup, user message
Begin ==
  /\ pc = "begin"
  /\ sessions' = addMessage(IF sessionId \in DOMAIN sessions
                            THEN sessions ELSE createSession(sessions),
                            sessionId, "user", UserText)
  /\ currentRound' = 0
  /\ pc' = "loop"
  /\ UNCHANGED <<execVars, adapterVars, sideVars>>
  /\ UNCHANGED <<profile, messages, handed, assistantContent, pendingToolCalls,
                 followUpContent, newToolCalls, idx, task, nChunks, turnChunks,
                 bodyEntries, streamCalls, executed, batchResults, turns,
                 events>>

\* while (currentRound < maxRounds) { currentRound++; ... aiService.stream(messages)
LoopEnter ==
  /\ pc = "loop"
  /\ LoopCondition
  /\ currentRound' = currentRound + 1
  /\ messages' = getMessages(sessions, sessionId, ContextLimit)
  /\ handed' = messages'
  /\ assistantContent' = <<>>
  /\ pendingToolCalls' = <<>>
  /\ followUpContent' = <<>>
  /\ newToolCalls' = <<>>
  /\ turnChunks' = 0
  /\ bodyEntries' = bodyEntries + 1
  /\ streamCalls' = streamCalls + 1
  /\ pc' = "stream1"
  /\ UNCHANGED <<execVars, adapterVars, sideVars>>
  /\ UNCHANGED <<profile, sessions, idx, task, nChunks, executed,
                 batchResults, turns, events>>

\* the loop condition fails
LoopExit ==
  /\ pc = "loop"
  /\ ~LoopCondition
  /\ pc' = "finish"
  /\ UNCHANGED <<execVars, adapterVars, sideVars>>
  /\ UNCHANGED <<profile, sessions, currentRound, messages, handed, assistantContent,
                 pendingToolCalls, followUpContent, newToolCalls, idx, task,
                 nChunks, turnChunks, bodyEntries, streamCalls, executed, batchResults,
                 turns, events>>

\* one chunk of the first stream of a round, lines 151-169
Stream1Chunk ==
  /\ pc = "stream1"
  /\ \E c \in ProviderChunks :
       /\ events' = Append(events, "onChunk")
       /\ assistantContent' = assistantContent \o c.content
       /\ pendingToolCalls' = IF c.toolCall # NoCall
                              THEN Append(pendingToolCalls, c.toolCall)
                              ELSE pendingToolCalls
       /\ turnChunks' = turnChunks + 1
       /\ nChunks' = nChunks + 1
       /\ pc' = IF c.isComplete THEN "post1" ELSE "stream1"
  /\ UNCHANGED <<execVars, adapterVars, sideVars>>
  /\ UNCHANGED <<profile, sessions, currentRound, messages, handed, followUpContent,
                 newToolCalls, idx, task, bodyEntries, streamCalls, executed, batchResults,
                 turns>>

\* the generator returns without a chunk that has isComplete
Stream1End ==
  /\ pc = "stream1"
  /\ profile = "wide"
  /\ pc' = "post1"
  /\ UNCHANGED <<execVars, adapterVars, sideVars>>
  /\ UNCHANGED <<profile, sessions, currentRound, messages, handed, assistantContent,
                 pendingToolCalls, followUpContent, newToolCalls, idx, task,
                 nChunks, turnChunks, bodyEntries, streamCalls, executed, batchResults,
                 turns, events>>

\* lines 185-193: break when the turn has no tool call
AfterTurn == IF Len(pendingToolCalls) = 0 THEN "finish" ELSE "exec1"

\* the accumulated text is appended as it came
Post1_raw ==
  /\ pc = "post1"
  /\ sessions' = IF assistantContent # <<>>
                 THEN addMessage(sessions, sessionId, "assistant",
                                 assistantContent)
                 ELSE sessions
  /\ turns' = Append(turns, [text |-> CleanContent(assistantContent),
                             calls |-> pendingToolCalls])
  /\ pc' = AfterTurn
  /\ IF AfterTurn = "exec1"
     THEN idx' = 1 /\ batchResults' = <<>>
     ELSE UNCHANGED <<idx, batchResults>>
  /\ UNCHANGED <<execVars, adapterVars, sideVars>>
  /\ UNCHANGED <<profile, currentRound, messages, handed, assistantContent,
                 pendingToolCalls, followUpContent, newToolCalls, task, nChunks,
                 turnChunks, bodyEntries, streamCalls, executed, events>>

\* lines 174-189: clean, append the assistant message, leave when no call
Post1 ==
  /\ pc = "post1"
  /\ sessions' = IF CleanContent(assistantContent) # <<>>
                 THEN addMessage(sessions, sessionId, "assistant",
                                 CleanContent(assistantContent))
                 ELSE sessions
  /\ turns' = Append(turns, [text |-> CleanContent(assistantContent),
                             calls |-> pendingToolCalls])
  /\ pc' = AfterTurn
  /\ IF AfterTurn = "exec1"
     THEN idx' = 1 /\ batchResults' = <<>>
     ELSE UNCHANGED <<idx, batchResults>>
  /\ UNCHANGED <<execVars, adapterVars, sideVars>>
  /\ UNCHANGED <<profile, currentRound, messages, handed, assistantContent,
                 pendingToolCalls, followUpContent, newToolCalls, task, nChunks,
                 turnChunks, bodyEntries, streamCalls, executed, events>>

\* TaskExecutor.createTask
createTask(params) == [status |-> "pending", params |-> params, result |-> <<>>]

\* TaskExecutor.execute up to the await of the tool: status running
executeBegin(t) == [t EXCEPT !.status = "running"]

\* the final status does not look at the result
executeEnd_completed(t, r) == [t EXCEPT !.result = r, !.status = "completed"]

\* TaskExecutor.execute after the tool returned: result and final status
executeEnd(t, r) ==
  [t EXCEPT !.result = r,
            !.status = IF Success(r) THEN "completed" ELSE "failed"]

\* TaskExecutor.execute, lines 52-56: executeToolCall rejected
executeCatch(t) == [t EXCEPT !.status = "failed"]

\* the batch is walked from its last call to its first
ExecStart_reversed(here, there, batch, announce) ==
  /\ pc = here
  /\ events' = IF announce THEN Append(events, "onToolCall") ELSE events
  /\ task' = executeBegin(createTask(batch[Len(batch) + 1 - idx]))
  /\ executed' = Append(executed, batch[Len(batch) + 1 - idx])
  /\ pc' = there
  /\ UNCHANGED <<execVars, adapterVars, sideVars>>
  /\ UNCHANGED <<profile, sessions, currentRound, messages, handed,
                 assistantContent, pendingToolCalls, followUpContent,
                 newToolCalls, idx, nChunks, turnChunks, bodyEntries, streamCalls,
                 batchResults, turns>>

\* for (const toolCall of batch): createTask, execute up to the running tool
ExecStart(here, there, batch, announce) ==
  /\ pc = here
  /\ events' = IF announce THEN Append(events, "onToolCall") ELSE events
  /\ task' = executeBegin(createTask(batch[idx]))
  /\ executed' = Append(executed, batch[idx])
  /\ pc' = there
  /\ UNCHANGED <<execVars, adapterVars, sideVars>>
  /\ UNCHANGED <<profile, sessions, currentRound, messages, handed,
                 assistantContent, pendingToolCalls, followUpContent,
                 newToolCalls, idx, nChunks, turnChunks, bodyEntries, streamCalls,
                 batchResults, turns>>

\* a failed result ends the loop
ExecReturn_stopOnFailure(here, more, after, batch) ==
  /\ pc = here
  /\ \E r \in ToolResults :
       /\ task' = executeEnd(task, r)
       /\ sessions' = addMessage(sessions, sessionId, "system",
                                 toolResultMessage(batch[idx], r))
       /\ batchResults' = Append(batchResults,
                                 [role |-> "system",
                                  content |-> toolResultMessage(batch[idx], r),
                                  timestamp |-> Len(Log) + 1])
       /\ pc' = IF ~Success(r) THEN "finish"
                ELSE IF idx < Len(batch) THEN more ELSE after
  /\ events' = Append(events, "onToolResult")
  /\ idx' = idx + 1
  /\ UNCHANGED <<execVars, adapterVars, sideVars>>
  /\ UNCHANGED <<profile, currentRound, messages, handed, assistantContent,
                 pendingToolCalls, followUpContent, newToolCalls, nChunks,
                 turnChunks, bodyEntries, streamCalls, executed, turns>>

\* the tool returns: onToolResult, the result message, the next call
ExecReturn(here, more, after, batch) ==
  /\ pc = here
  /\ \E r \in ToolResults :
       /\ task' = executeEnd(task, r)
       /\ sessions' = addMessage(sessions, sessionId, "system",
                                 toolResultMessage(batch[idx], r))
       /\ batchResults' = Append(batchResults,
                                 [role |-> "system",
                                  content |-> toolResultMessage(batch[idx], r),
                                  timestamp |-> Len(Log) + 1])
  /\ events' = Append(events, "onToolResult")
  /\ idx' = idx + 1
  /\ pc' = IF idx < Len(batch) THEN more ELSE after
  /\ UNCHANGED <<execVars, adapterVars, sideVars>>
  /\ UNCHANGED <<profile, currentRound, messages, handed, assistantContent,
                 pendingToolCalls, followUpContent, newToolCalls, nChunks,
                 turnChunks, bodyEntries, streamCalls, executed, turns>>

\* lines 193-198
Exec1Start == ExecStart("exec1", "wait1", pendingToolCalls, TRUE)

\* lines 198-205
Exec1Return == ExecReturn("wait1", "exec1", "fetch2", pendingToolCalls)

\* lines 262-264
Exec2Start == ExecStart("exec2", "wait2", newToolCalls, FALSE)

\* lines 264-270, then continue
Exec2Return == ExecReturn("wait2", "exec2", "loop", newToolCalls)

\* the follow-up stream is given the list read before the tools ran
updatedMessages_stale == messages

\* const updatedMessages = this.getMessages(sessionId, 20)
updatedMessages == getMessages(sessions, sessionId, ContextLimit)

\* lines 207-215: the follow-up stream is requested
Fetch2 ==
  /\ pc = "fetch2"
  /\ handed' = updatedMessages
  /\ followUpContent' = <<>>
  /\ newToolCalls' = <<>>
  /\ turnChunks' = 0
  /\ streamCalls' = streamCalls + 1
  /\ pc' = "stream2"
  /\ UNCHANGED <<execVars, adapterVars, sideVars>>
  /\ UNCHANGED <<profile, sessions, currentRound, messages, assistantContent,
                 pendingToolCalls, idx, task, nChunks, bodyEntries, executed,
                 batchResults, turns, events>>

\* one chunk of the follow-up stream, lines 215-227
Stream2Chunk ==
  /\ pc = "stream2"
  /\ \E c \in ProviderChunks :
       /\ followUpContent' = followUpContent \o c.content
       /\ events' = events
                    \o (IF c.content # NoText THEN <<"onChunk">> ELSE <<>>)
                    \o (IF c.toolCall # NoCall THEN <<"onToolCall">> ELSE <<>>)
       /\ newToolCalls' = IF c.toolCall # NoCall
                          THEN Append(newToolCalls, c.toolCall)
                          ELSE newToolCalls
       /\ turnChunks' = turnChunks + 1
       /\ nChunks' = nChunks + 1
       /\ pc' = IF c.isComplete THEN "post2" ELSE "stream2"
  /\ UNCHANGED <<execVars, adapterVars, sideVars>>
  /\ UNCHANGED <<profile, sessions, currentRound, messages, handed,
                 assistantContent, pendingToolCalls, idx, task, bodyEntries, streamCalls,
                 executed, batchResults, turns>>

\* the follow-up generator returns without a chunk that has isComplete
Stream2End ==
  /\ pc = "stream2"
  /\ profile = "wide"
  /\ pc' = "post2"
  /\ UNCHANGED <<execVars, adapterVars, sideVars>>
  /\ UNCHANGED <<profile, sessions, currentRound, messages, handed,
                 assistantContent, pendingToolCalls, followUpContent,
                 newToolCalls, idx, task, nChunks, turnChunks, bodyEntries, streamCalls,
                 executed, batchResults, turns, events>>

\* the new call is compared with the first call of the batch
DuplicateCall_firstOfBatch ==
  /\ CleanContent(followUpContent) = <<>>
  /\ Len(newToolCalls) > 0
  /\ pendingToolCalls[1].name = newToolCalls[1].name
  /\ Stringify(pendingToolCalls[1].arguments)
       = Stringify(newToolCalls[1].arguments)

\* lines 243-249: no text, and the first new call repeats the last executed one
DuplicateCall ==
  /\ CleanContent(followUpContent) = <<>>
  /\ Len(newToolCalls) > 0
  /\ pendingToolCalls[Len(pendingToolCalls)].name = newToolCalls[1].name
  /\ Stringify(pendingToolCalls[Len(pendingToolCalls)].arguments)
       = Stringify(newToolCalls[1].arguments)

\* a follow-up turn without calls continues with the next round
AfterFollowUp_continue ==
  IF DuplicateCall THEN "finish"
  ELSE IF Len(newToolCalls) > 0 THEN "exec2"
  ELSE "loop"

\* lines 243-275: break on a duplicate call, run the new calls and continue,
\* or break when there is none
AfterFollowUp ==
  IF DuplicateCall THEN "finish"
  ELSE IF Len(newToolCalls) > 0 THEN "exec2"
  ELSE "finish"

\* lines 231-275: clean, append, duplicate-call guard, second batch or leave
Post2 ==
  /\ pc = "post2"
  /\ sessions' = IF CleanContent(followUpContent) # <<>>
                 THEN addMessage(sessions, sessionId, "assistant",
                                 CleanContent(followUpContent))
                 ELSE sessions
  /\ turns' = Append(turns, [text |-> CleanContent(followUpContent),
                             calls |-> newToolCalls])
  /\ events' = IF DuplicateCall THEN Append(events, "completionNotice") ELSE events
  /\ pc' = AfterFollowUp
  /\ IF AfterFollowUp = "exec2"
     THEN idx' = 1 /\ batchResults' = <<>>
     ELSE UNCHANGED <<idx, batchResults>>
  /\ UNCHANGED <<execVars, adapterVars, sideVars>>
  /\ UNCHANGED <<profile, currentRound, messages, handed, assistantContent,
                 pendingToolCalls, followUpContent, newToolCalls, task, nChunks,
                 turnChunks, bodyEntries, streamCalls, executed>>

\* the failed stream is requested again instead of reporting the error
StreamThrow_retry ==
  /\ pc \in {"stream1", "stream2"}
  /\ profile = "wide"
  /\ streamCalls < 2 * maxRounds
  /\ streamCalls' = streamCalls + 1
  /\ UNCHANGED <<execVars, adapterVars, sideVars>>
  /\ UNCHANGED <<profile, pc, sessions, currentRound, messages, handed,
                 assistantContent, pendingToolCalls, followUpContent,
                 newToolCalls, idx, task, nChunks, turnChunks, bodyEntries,
                 executed, batchResults, turns, events>>

\* aiService.stream throws (on the request or mid-stream): catch, onError
StreamThrow ==
  /\ pc \in {"stream1", "stream2"}
  /\ profile = "wide"
  /\ events' = Append(events, "onError")
  /\ pc' = "failed"
  /\ UNCHANGED <<execVars, adapterVars, sideVars>>
  /\ UNCHANGED <<profile, sessions, currentRound, messages, handed,
                 assistantContent, pendingToolCalls, followUpContent,
                 newToolCalls, idx, task, nChunks, turnChunks, bodyEntries, streamCalls,
                 executed, batchResults, turns>>

\* the notice is sent only past the limit
RoundLimitReached_strict == currentRound > maxRounds

\* if (currentRound >= maxRounds)
RoundLimitReached == currentRound >= maxRounds

\* the truncation notice is also stored as an assistant message
Finish_logsNotice ==
  /\ pc = "finish"
  /\ events' = events
               \o (IF RoundLimitReached THEN <<"truncationNotice">> ELSE <<>>)
               \o <<"onComplete">>
  /\ sessions' = IF RoundLimitReached
                 THEN addMessage(sessions, sessionId, "assistant",
                                 <<"truncationNotice">>)
                 ELSE sessions
  /\ pc' = "done"
  /\ UNCHANGED <<execVars, adapterVars, sideVars>>
  /\ UNCHANGED <<profile, currentRound, messages, handed,
                 assistantContent, pendingToolCalls, followUpContent,
                 newToolCalls, idx, task, nChunks, turnChunks, bodyEntries, streamCalls,
                 executed, batchResults, turns>>

\* lines 278-287: truncation notice, onComplete
Finish ==
  /\ pc = "finish"
  /\ events' = events
               \o (IF RoundLimitReached THEN <<"truncationNotice">> ELSE <<>>)
               \o <<"onComplete">>
  /\ pc' = "done"
  /\ UNCHANGED <<execVars, adapterVars, sideVars>>
  /\ UNCHANGED <<profile, sessions, currentRound, messages, handed,
                 assistantContent, pendingToolCalls, followUpContent,
                 newToolCalls, idx, task, nChunks, turnChunks, bodyEntries, streamCalls,
                 executed, batchResults, turns>>

Next ==
  \/ Begin
  \/ LoopEnter
  \/ LoopExit
  \/ Stream1Chunk
  \/ Stream1End
  \/ Post1
  \/ Exec1Start
  \/ Exec1Return
  \/ Fetch2
  \/ Stream2Chunk
  \/ Stream2End
  \/ Post2
  \/ Exec2Start
  \/ Exec2Return
  \/ StreamThrow
  \/ Finish

Spec == Init /\ [][Next]_vars

\* the steps of a run whose every turn ends with its final marker
NextBusy ==
  \/ Begin
  \/ LoopEnter
  \/ LoopExit
  \/ Stream1Chunk
  \/ Post1
  \/ Exec1Start
  \/ Exec1Return
  \/ Fetch2
  \/ Stream2Chunk
  \/ Post2
  \/ Exec2Start
  \/ Exec2Return
  \/ Finish

\* every turn brings text and a tool call, every tool returns, and the event
\* loop keeps running the continuations
InitBusy == Init /\ profile = "busy"

FairBusy == InitBusy /\ [][NextBusy]_vars /\ WF_vars(NextBusy)

\* ------------------------------------------------------------ TaskExecutor
\* a run of processMessageStream that never starts
ChatOff ==
  /\ profile = "none"
  /\ pc = "off"
  /\ sessions = (sessionId :> <<>>)
  /\ currentRound = 0
  /\ messages = <<>>
  /\ handed = <<>>
  /\ assistantContent = <<>>
  /\ pendingToolCalls = <<>>
  /\ followUpContent = <<>>
  /\ newToolCalls = <<>>
  /\ idx = 0
  /\ task = NoTask
  /\ nChunks = 0
  /\ turnChunks = 0
  /\ bodyEntries = 0
  /\ streamCalls = 0
  /\ executed = <<>>
  /\ batchResults = <<>>
  /\ turns = <<>>
  /\ events = <<>>

\* the status of task t becomes st
SetStatus(ts, t, st) == [ts EXCEPT ![t].status = st]

\* TaskExecutor.createTask, called by a client of the executor
CreateTask(t) ==
  /\ tasks[t].status = "none"
  /\ \A u \in TaskIds : u < t => tasks[u].status # "none"
  /\ \E call \in {CallA, CallB, CallZ} :
       tasks' = [tasks EXCEPT ![t] = createTask(call)]
  /\ trail' = [trail EXCEPT ![t] = Append(@, "pending")]
  /\ UNCHANGED <<runningTasks, awaiting, notes, toolRuns, cancelLog>>
  /\ UNCHANGED <<chatVars, adapterVars, sideVars>>

\* TaskExecutor.execute, lines 37-46, and executeToolCall up to the tool:
\* status running, runningTasks.set, onTaskUpdate, onToolCall
Execute(t) ==
  /\ tasks[t].status = "pending"
  /\ t \notin awaiting
  /\ tasks' = [tasks EXCEPT ![t] = executeBegin(@)]
  /\ trail' = [trail EXCEPT ![t] = Append(@, "running")]
  /\ runningTasks' = runningTasks \cup {t}
  /\ awaiting' = awaiting \cup {t}
  /\ notes' = [notes EXCEPT ![t] =
                 @ \o << <<"task-updated", "running">>, <<"tool-called">> >>]
  /\ UNCHANGED <<toolRuns, cancelLog>>
  /\ UNCHANGED <<chatVars, adapterVars, sideVars>>

\* TaskExecutor.execute from the await on, lines 46-61, for the settled
\* promise o of the registry: onToolResult and the result, or the catch
\* branch; then the final onTaskUpdate
executeSettled(t, o) ==
  IF o.rejects
  THEN [task |-> executeCatch(t),
        sent |-> << <<"task-updated", executeCatch(t).status>> >>]
  ELSE [task |-> executeEnd(t, o.value),
        sent |-> << <<"tool-result">>, <<"task-updated", executeEnd(t, o.value).status>> >>]

\* the registry call of task t settles: lines 74-79 and 46-61
ToolReturns(t) ==
  /\ t \in awaiting
  /\ \E b \in ToolBehaviours :
       LET o == registryExecute(tasks[t].params.name, b)
           done == executeSettled(tasks[t], o)
       IN /\ tasks' = [tasks EXCEPT ![t] = done.task]
          /\ trail' = [trail EXCEPT ![t] = Append(@, done.task.status)]
          /\ notes' = [notes EXCEPT ![t] = @ \o done.sent]
          /\ toolRuns' = [toolRuns EXCEPT ![t] =
               IF tasks[t].params.name \in Registered THEN b ELSE "missing"]
  /\ UNCHANGED cancelLog
  /\ runningTasks' = runningTasks \ {t}
  /\ awaiting' = awaiting \ {t}
  /\ UNCHANGED <<chatVars, adapterVars, sideVars>>

\* cancelTask sends no notification
CancelTask_silent(t) ==
  /\ IF t \in runningTasks /\ tasks[t].status = "running"
     THEN /\ tasks' = SetStatus(tasks, t, "cancelled")
          /\ trail' = [trail EXCEPT ![t] = Append(@, "cancelled")]
          /\ runningTasks' = runningTasks \ {t}
          /\ cancelLog' = cancelLog \cup {<<t, tasks[t].status, TRUE>>}
     ELSE UNCHANGED <<tasks, trail, runningTasks, cancelLog>>
  /\ UNCHANGED <<awaiting, toolRuns, notes>>
  /\ UNCHANGED <<chatVars, adapterVars, sideVars>>

\* cancelTask leaves the task in runningTasks
CancelTask_keepsEntry(t) ==
  /\ IF t \in runningTasks /\ tasks[t].status = "running"
     THEN /\ tasks' = SetStatus(tasks, t, "cancelled")
          /\ trail' = [trail EXCEPT ![t] = Append(@, "cancelled")]
          /\ runningTasks' = runningTasks
          /\ notes' = [notes EXCEPT ![t] = Append(@, <<"task-updated", "cancelled">>)]
          /\ cancelLog' = cancelLog \cup {<<t, tasks[t].status, TRUE>>}
     ELSE /\ cancelLog' = cancelLog \cup
               (IF tasks[t].status = "pending"
                THEN {<<t, tasks[t].status, FALSE>>} ELSE {})
          /\ UNCHANGED <<tasks, trail, runningTasks, notes>>
  /\ UNCHANGED <<awaiting, toolRuns>>
  /\ UNCHANGED <<chatVars, adapterVars, sideVars>>

\* TaskExecutor.cancelTask, lines 108-118
CancelTask(t) ==
  /\ IF t \in runningTasks /\ tasks[t].status = "running"
     THEN /\ tasks' = SetStatus(tasks, t, "cancelled")
          /\ trail' = [trail EXCEPT ![t] = Append(@, "cancelled")]
          /\ runningTasks' = runningTasks \ {t}
          /\ notes' = [notes EXCEPT ![t] = Append(@, <<"task-updated", "cancelled">>)]
          /\ cancelLog' = cancelLog \cup {<<t, tasks[t].status, TRUE>>}
     ELSE /\ cancelLog' = cancelLog \cup
               (IF tasks[t].status = "pending"
                THEN {<<t, tasks[t].status, FALSE>>} ELSE {})
          /\ UNCHANGED <<tasks, trail, runningTasks, notes>>
  /\ UNCHANGED <<awaiting, toolRuns>>
  /\ UNCHANGED <<chatVars, adapterVars, sideVars>>

NextTask ==
  \/ \E t \in TaskIds : CreateTask(t)
  \/ \E t \in TaskIds : Execute(t)
  \/ \E t \in TaskIds : ToolReturns(t)
  \/ \E t \in TaskIds : CancelTask(t)

\* clients create tasks, execute them and cancel them in any order
InitTask == ChatOff /\ ExecInit /\ AdapterOff /\ SideOff

SpecTask == InitTask /\ [][NextTask]_vars

\* ------------------------------------------------------------ adapters
\* tokens of streamed text: "a" a character, " " white space, "[think]" and
\* "[/think]" the sentinels '[思考]' and '[/思考]', "<tc>" "</tc>" the
\* minimax:tool_call tags, "<inv:N>" = <invoke name="N">, "</inv>",
\* "<params>" "</params>", "<k>" "</k>" a parameter tag, "v" its text

\* a chunk yielded by stream()
Chunk(content, toolCall, isComplete) ==
  [content |-> content, toolCall |-> toolCall, isComplete |-> isComplete]

\* yield
Yield(a, chunk) == [a EXCEPT !.out = Append(@, chunk)]

\* currentToolCall = { id, name, arguments }
OpenCall(a, id, name, text) ==
  [a EXCEPT !.currentToolCall = <<[id |-> id, name |-> name, arguments |-> text]>>]

\* a fragment replaces the argument text collected so far
AppendArguments_overwrite(a, frag) ==
  IF a.currentToolCall = <<>> THEN a
  ELSE [a EXCEPT !.currentToolCall[1].arguments = frag]

\* if (currentToolCall) currentToolCall.arguments += fragment
AppendArguments(a, frag) ==
  IF a.currentToolCall = <<>> THEN a
  ELSE [a EXCEPT !.currentToolCall[1].arguments = @ \o frag]

\* the chunk { toolCall: { id, name, arguments: JSON.parse(text || '{}') } }
ParsedCall(cur) ==
  [id |-> cur.id, name |-> cur.name,
   arguments |-> ParseJSON(OrEmptyObject(cur.arguments))]

\* DeepSeek and Claude at the finish marker: the pending call is parsed and
\* yielded with isComplete, and a parse error leaves the generator
FinishTurn(a) ==
  IF a.currentToolCall = <<>> THEN Yield(a, Chunk(NoText, NoCall, TRUE))
  ELSE IF ParseOK(OrEmptyObject(a.currentToolCall[1].arguments))
  THEN Yield(a, Chunk(NoText, ParsedCall(a.currentToolCall[1]), TRUE))
  ELSE [a EXCEPT !.status = "thrown"]

\* DeepSeekProvider.stream: one tool delta of delta.tool_calls
DeepSeekToolDelta(a, td) ==
  IF td.id # "" THEN OpenCall(a, td.id, td.name, td.arguments)
  ELSE IF td.arguments # <<>> THEN AppendArguments(a, td.arguments)
  ELSE a

RECURSIVE DeepSeekToolDeltas(_, _)
\* for (const toolDelta of delta.tool_calls)
DeepSeekToolDeltas(a, tds) ==
  IF tds = <<>> THEN a
  ELSE DeepSeekToolDeltas(DeepSeekToolDelta(a, Head(tds)), Tail(tds))

\* DeepSeekProvider.stream: the body of for await (const chunk of stream)
DeepSeekChunk(a, ev) ==
  IF ~ev.delta THEN a
  ELSE LET a1 == IF ev.content # NoText
                 THEN Yield(a, Chunk(ev.content, NoCall, FALSE)) ELSE a
           a2 == DeepSeekToolDeltas(a1, ev.tool_calls)
       IN IF ev.finish_reason THEN FinishTurn(a2) ELSE a2

\* ClaudeProvider.stream: the body of for await (const chunk of stream)
ClaudeChunk(a, ev) ==
  LET a1 == IF ev.type = "content_block_delta" /\ ev.delta.type = "text_delta"
            THEN Yield(a, Chunk(ev.delta.text, NoCall, FALSE)) ELSE a
      a2 == IF ev.type = "content_block_start" /\ ev.content_block.type = "tool_use"
            THEN OpenCall(a1, ev.content_block.id, ev.content_block.name, <<>>)
            ELSE a1
      a3 == IF ev.type = "content_block_delta" /\ ev.delta.type = "input_json_delta"
            THEN AppendArguments(a2, ev.delta.partial_json) ELSE a2
  IN IF ev.type = "message_stop" THEN FinishTurn(a3) ELSE a3

Blank(tok) == tok = " "

RECURSIVE SkipWs(_, _)
\* \s* from position i: the first position that holds no white space
SkipWs(s, i) == IF i <= Len(s) /\ Blank(s[i]) THEN SkipWs(s, i + 1) ELSE i

At(s, i) == IF i >= 1 /\ i <= Len(s) THEN s[i] ELSE "$"

InvokeTags == {"<inv:A>", "<inv:B>"}
InvokeName(tok) == IF tok = "<inv:A>" THEN "A" ELSE "B"

\* \s*<\/invoke>\s*<\/minimax:tool_call> from position i: the position after
\* the match, 0 when it fails
CloseAt(s, i) ==
  LET m == SkipWs(s, i)
      n == SkipWs(s, m + 1)
  IN IF At(s, m) = "</inv>" /\ At(s, n) = "</tc>" THEN n + 1 ELSE 0

RECURSIVE ParamsEnd(_, _)
\* the least k >= i with </parameters> at k and the closing tags after it
ParamsEnd(s, i) ==
  IF i > Len(s) THEN 0
  ELSE IF s[i] = "</params>" /\ CloseAt(s, i + 1) # 0 THEN i
  ELSE ParamsEnd(s, i + 1)

RECURSIVE ParamPairs(_, _)
\* paramsXml.matchAll(/<(\w+)>(.*?)<\/\1>/gs): params[name] = text
ParamPairs(x, i) ==
  IF i > Len(x) THEN <<>>
  ELSE IF x[i] = "<k>" /\ IndexFrom(x, "</k>", i + 1) # 0
  THEN LET j == IndexFrom(x, "</k>", i + 1)
           rest == ParamPairs(x, j + 1)
       IN IF rest # <<>> THEN rest ELSE << <<"k", SubSeq(x, i + 1, j - 1)>> >>
  ELSE ParamPairs(x, i + 1)

\* one match of the tool-call pattern at position i: [end, name, params],
\* end = 0 when there is no match at i
InlineMatch(s, i) ==
  LET j == SkipWs(s, i + 1)
      b == SkipWs(s, j + 1)
      k == IF At(s, b) = "<params>" THEN ParamsEnd(s, b + 1) ELSE 0
  IN IF At(s, i) # "<tc>" \/ At(s, j) \notin InvokeTags
     THEN [end |-> 0, name |-> "", params |-> <<>>]
     ELSE IF k # 0
     THEN [end |-> CloseAt(s, k + 1), name |-> InvokeName(s[j]),
           params |-> ParamPairs(SubSeq(s, b + 1, k - 1), 1)]
     ELSE [end |-> CloseAt(s, j + 1), name |-> InvokeName(s[j]), params |-> <<>>]

RECURSIVE InlineCalls(_, _)
\* fullTextContent.matchAll(...): the inline invocations, as tool calls
InlineCalls(s, i) ==
  IF i > Len(s) THEN <<>>
  ELSE LET m == InlineMatch(s, i)
       IN IF m.end # 0
          THEN <<[id |-> "call-xml", name |-> m.name, arguments |-> m.params]>>
               \o InlineCalls(s, m.end)
          ELSE InlineCalls(s, i + 1)

\* the inline invocations are not surfaced
YieldCalls_none(a, calls) == a

RECURSIVE YieldCalls(_, _)
\* for (const match of toolCallMatches) yield { toolCall, isComplete: false }
YieldCalls(a, calls) ==
  IF calls = <<>> THEN a
  ELSE YieldCalls(Yield(a, Chunk(NoText, Head(calls), FALSE)), Tail(calls))

\* MiniMaxProvider.stream, lines 275-333: message_stop
MiniMaxStop(a) ==
  LET a1 == IF a.hasYieldThinking
            THEN Yield(a, Chunk(<<"[/think]">>, NoCall, FALSE)) ELSE a
      a2 == YieldCalls(a1, InlineCalls(a.fullTextContent, 1))
      a3 == IF a2.currentToolCall = <<>> THEN a2
            ELSE [(IF ParseOK(OrEmptyObject(a2.currentToolCall[1].arguments))
                   THEN Yield(a2, Chunk(NoText, ParsedCall(a2.currentToolCall[1]), FALSE))
                   ELSE a2)
                  EXCEPT !.currentToolCall = <<>>]
  IN [Yield(a3, Chunk(NoText, NoCall, TRUE)) EXCEPT !.status = "returned"]

\* MiniMaxProvider.stream, lines 218-337: one line of the response body
MiniMaxLine(a, ev) ==
  IF ev.line # "data" THEN a
  ELSE IF ev.data = "[DONE]"
  THEN [Yield(a, Chunk(NoText, NoCall, TRUE)) EXCEPT !.status = "returned"]
  ELSE IF ev.data = "bad" THEN a
  ELSE
    LET a1 == IF ev.delta.type = "thinking_delta" /\ ev.delta.thinking # <<>>
              THEN Yield(IF ~a.hasYieldThinking
                         THEN Yield([a EXCEPT !.hasYieldThinking = TRUE],
                                    Chunk(<<"[think]">>, NoCall, FALSE))
                         ELSE a,
                         Chunk(ev.delta.thinking, NoCall, FALSE))
              ELSE a
        a2 == IF ev.delta.type = "text_delta" /\ ev.delta.text # <<>>
              THEN Yield(IF a1.hasYieldThinking
                         THEN Yield([a1 EXCEPT !.hasYieldThinking = FALSE,
                                               !.fullTextContent = @ \o ev.delta.text],
                                    Chunk(<<"[/think]">>, NoCall, FALSE))
                         ELSE [a1 EXCEPT !.fullTextContent = @ \o ev.delta.text],
                         Chunk(ev.delta.text, NoCall, FALSE))
              ELSE a1
        a3 == IF ev.content_block.type = "tool_use"
              THEN OpenCall(a2, ev.content_block.id, ev.content_block.name, <<>>)
              ELSE a2
        a4 == IF ev.delta.type = "input_json_delta" /\ ev.delta.partial_json # <<>>
              THEN AppendArguments(a3, ev.delta.partial_json) ELSE a3
    IN IF ev.type = "message_stop" THEN MiniMaxStop(a4) ELSE a4

\* OllamaProvider.stream, lines 115-135: one line of the response body
OllamaLine(a, ev) ==
  IF ev.blank \/ ~ev.json THEN a
  ELSE LET a1 == IF ev.content # NoText
                 THEN Yield(a, Chunk(ev.content, NoCall, ev.done)) ELSE a
       IN IF ev.done THEN Yield(a1, Chunk(NoText, NoCall, TRUE)) ELSE a1

\* the vendor stream ends: MiniMax (line 341) and Ollama (part_000, line 143)
\* yield the final marker, the other generators return
StreamEnds(p, a) ==
  IF p \in {"minimax", "ollama"}
  THEN [Yield(a, Chunk(NoText, NoCall, TRUE)) EXCEPT !.status = "returned"]
  ELSE [a EXCEPT !.status = "returned"]

\* ---- the vendor events of the model
\* argument fragments
Fragments == {<<"{">>, <<"}">>, <<"p">>, <<"{", "}">>, <<"{", "p">>, <<"p", "}">>}

DsChunk(delta, content, tds, fin) ==
  [delta |-> delta, content |-> content, tool_calls |-> tds, finish_reason |-> fin]
DsDelta(id, name, text) == [id |-> id, name |-> name, arguments |-> text]

DeepSeekEvents ==
  {DsChunk(FALSE, NoText, <<>>, FALSE),
   DsChunk(TRUE, <<"a">>, <<>>, FALSE),
   DsChunk(TRUE, NoText, <<>>, TRUE)}
  \cup {DsChunk(TRUE, NoText, <<DsDelta(c.id, c.name, t)>>, FALSE) :
          c \in {CallA, CallB}, t \in {<<>>, <<"{">>}}
  \cup {DsChunk(TRUE, NoText, <<DsDelta("", "", f)>>, FALSE) : f \in Fragments}

NoBlock == [type |-> "", id |-> "", name |-> ""]
NoDelta == [type |-> "", thinking |-> <<>>, text |-> <<>>, partial_json |-> <<>>]
ToolUse(c) == [type |-> "tool_use", id |-> c.id, name |-> c.name]
ThinkingDelta(t) == [NoDelta EXCEPT !.type = "thinking_delta", !.thinking = t]
TextDelta(t) == [NoDelta EXCEPT !.type = "text_delta", !.text = t]
JsonDelta(t) == [NoDelta EXCEPT !.type = "input_json_delta", !.partial_json = t]

Event(type, block, delta) == [type |-> type, content_block |-> block, delta |-> delta]

ClaudeEvents ==
  {Event("content_block_delta", NoBlock, TextDelta(<<"a">>)),
   Event("content_block_delta", NoBlock, ThinkingDelta(<<"a">>)),
   Event("message_stop", NoBlock, NoDelta)}
  \cup {Event("content_block_start", ToolUse(c), NoDelta) : c \in {CallA, CallB}}
  \cup {Event("content_block_delta", NoBlock, JsonDelta(f)) : f \in Fragments}

Line(line, data, ev) ==
  [line |-> line, data |-> data, type |-> ev.type,
   content_block |-> ev.content_block, delta |-> ev.delta]
NoEvent == Event("", NoBlock, NoDelta)
InlineB == <<"<tc>", "<inv:B>", "</inv>", "</tc>">>

MiniMaxEvents ==
  {Line("other", "", NoEvent),
   Line("data", "[DONE]", NoEvent),
   Line("data", "bad", NoEvent),
   Line("data", "json", Event("content_block_delta", NoBlock, ThinkingDelta(<<"a">>))),
   Line("data", "json", Event("content_block_delta", NoBlock, TextDelta(<<"a">>))),
   Line("data", "json", Event("content_block_delta", NoBlock, TextDelta(InlineB))),
   Line("data", "json", Event("message_stop", NoBlock, NoDelta))}
  \cup {Line("data", "json", Event("content_block_start", ToolUse(c), NoDelta)) :
          c \in {CallA, CallB}}
  \cup {Line("data", "json", Event("content_block_delta", NoBlock, JsonDelta(f))) :
          f \in Fragments}

OllamaData(blank, json, content, done) ==
  [blank |-> blank, json |-> json, content |-> content, done |-> done]

OllamaEvents ==
  {OllamaData(TRUE, FALSE, NoText, FALSE),
   OllamaData(FALSE, FALSE, NoText, FALSE),
   OllamaData(FALSE, TRUE, <<"a">>, FALSE),
   OllamaData(FALSE, TRUE, <<"a">>, TRUE),
   OllamaData(FALSE, TRUE, NoText, TRUE)}

Providers == {"deepseek", "claude", "minimax", "ollama"}

\* the adapter's step on one vendor event
Step(p, a, ev) ==
  CASE p = "deepseek" -> DeepSeekChunk(a, ev)
    [] p = "claude" -> ClaudeChunk(a, ev)
    [] p = "ollama" -> OllamaLine(a, ev)
    [] OTHER -> MiniMaxLine(a, ev)

RECURSIVE Run(_, _, _)
\* stream() fed the events w from state a, up to where it returns or throws
Run(p, a, w) ==
  IF w = <<>> \/ a.status # "open" THEN a
  ELSE Run(p, Step(p, a, Head(w)), Tail(w))

Receive(p, evs) ==
  /\ provider = p
  /\ adapter.status = "open"
  /\ Len(wire) < MaxEvents
  /\ \E ev \in evs :
       /\ adapter' = Step(p, adapter, ev)
       /\ wire' = Append(wire, ev)
  /\ UNCHANGED provider
  /\ UNCHANGED <<chatVars, execVars, sideVars>>

DeepSeekReceive == Receive("deepseek", DeepSeekEvents)
ClaudeReceive == Receive("claude", ClaudeEvents)
MiniMaxReceive == Receive("minimax", MiniMaxEvents)
OllamaReceive == Receive("ollama", OllamaEvents)

\* the response body ends
TransportEnds ==
  /\ adapter.status = "open"
  /\ adapter' = StreamEnds(provider, adapter)
  /\ UNCHANGED <<provider, wire>>
  /\ UNCHANGED <<chatVars, execVars, sideVars>>

NextStream ==
  \/ DeepSeekReceive
  \/ ClaudeReceive
  \/ MiniMaxReceive
  \/ OllamaReceive
  \/ TransportEnds

\* one stream() call of one adapter, fed any vendor events
InitStream ==
  /\ ChatOff /\ ExecInit /\ SideOff
  /\ provider \in Providers /\ adapter = NoAdapter /\ wire = <<>>

SpecStream == InitStream /\ [][NextStream]_vars

\* ------------------------------------------------------------ BaseAIProvider.retry
\* maxRetries: number = 3, delayMs: number = 1000
DefaultMaxRetries == 3
DefaultDelayMs == 1000

\* what fn can resolve with and reject with
FnValues == {"v1", "v2"}
FnErrors == {"e1", "e2"}

\* the arguments a caller can pass
RetryLimits == (0..MaxRetryArg) \cup {DefaultMaxRetries}
RetryDelays == {DefaultDelayMs, 0}

\* i < maxRetries + 1
RetryCondition_inclusive == retry.i <= retry.maxRetries

\* for (...; i < maxRetries; ...)
RetryCondition == retry.i < retry.maxRetries

\* the call: let lastError; let i = 0
RetryBegin ==
  /\ retry.pc = "called"
  /\ retry' = [retry EXCEPT !.pc = "for", !.i = 0, !.lastError = "undefined"]
  /\ UNCHANGED <<chatVars, execVars, adapterVars, twoVars, cleanVars, bootVars, requestVars, batchVars, socketVars, clientVars>>

\* the loop test passes: fn() is invoked and awaited
RetryInvoke ==
  /\ retry.pc = "for"
  /\ RetryCondition
  /\ retry' = [retry EXCEPT !.pc = "await",
                            !.attempts = Append(@, "pending")]
  /\ UNCHANGED <<chatVars, execVars, adapterVars, twoVars, cleanVars, bootVars, requestVars, batchVars, socketVars, clientVars>>

\* return await fn(): fn resolved, retry resolves with its value
RetryReturn ==
  /\ retry.pc = "await"
  /\ \E v \in FnValues :
       retry' = [retry EXCEPT !.pc = "returned",
                              !.attempts[Len(retry.attempts)] = v,
                              !.settled = v]
  /\ UNCHANGED <<chatVars, execVars, adapterVars, twoVars, cleanVars, bootVars, requestVars, batchVars, socketVars, clientVars>>

\* the wait also follows the last failed attempt
RetryWaits_afterLast == retry.i < retry.maxRetries

\* if (i < maxRetries - 1) await this.delay(delayMs * (i + 1))
RetryWaits == retry.i < retry.maxRetries - 1

\* catch (error): lastError = error; a delay follows unless this was the
\* last pass of the loop
RetryCatch ==
  /\ retry.pc = "await"
  /\ \E e \in FnErrors :
       retry' = [retry EXCEPT
                   !.attempts[Len(retry.attempts)] = e,
                   !.lastError = e,
                   !.pc = IF RetryWaits THEN "delay" ELSE "for",
                   !.delays = IF RetryWaits
                              THEN Append(@, retry.delayMs * (retry.i + 1))
                              ELSE @,
                   !.i = IF RetryWaits THEN @ ELSE @ + 1]
  /\ UNCHANGED <<chatVars, execVars, adapterVars, twoVars, cleanVars, bootVars, requestVars, batchVars, socketVars, clientVars>>

\* await this.delay(...) is over; i++
RetryDelayOver ==
  /\ retry.pc = "delay"
  /\ retry' = [retry EXCEPT !.pc = "for", !.i = @ + 1]
  /\ UNCHANGED <<chatVars, execVars, adapterVars, twoVars, cleanVars, bootVars, requestVars, batchVars, socketVars, clientVars>>

\* the loop test fails: throw lastError
RetryThrow ==
  /\ retry.pc = "for"
  /\ ~RetryCondition
  /\ retry' = [retry EXCEPT !.pc = "thrown", !.settled = retry.lastError]
  /\ UNCHANGED <<chatVars, execVars, adapterVars, twoVars, cleanVars, bootVars, requestVars, batchVars, socketVars, clientVars>>

NextRetry ==
  \/ RetryBegin
  \/ RetryInvoke
  \/ RetryReturn
  \/ RetryCatch
  \/ RetryDelayOver
  \/ RetryThrow

InitRetry ==
  /\ ChatOff /\ ExecInit /\ AdapterOff
  /\ \E m \in RetryLimits, d \in RetryDelays :
       retry = [NoRetry EXCEPT !.maxRetries = m, !.delayMs = d, !.pc = "called"]
  /\ TwoOff /\ CleanOff /\ BootOff /\ RequestOff /\ BatchOff /\ SocketsOff /\ ClientOff

SpecRetry == InitRetry /\ [][NextRetry]_vars

\* ------------------------------------------------------------ two messages, one session
\* The socket handler (tools/index.ts 255-299) is an async function that calls
\* processMessageStream at once for every message event; the steps below are
\* the stretches of processMessageStream between two awaits.

\* the provider may still answer message m with a turn that requests a tool
MayCall(m) == inflight[m].turns < MaxCallTurns

\* message m arrives: streamStart, the user message is appended, the first
\* round is entered and its stream requested (lines 121-151)
Arrive(m) ==
  /\ inflight[m].pc = "idle"
  /\ \A k \in Messages : k < m => inflight[k].pc # "idle"
  /\ sessionLog' = Append(sessionLog, <<m, "user">>)
  /\ inflight' = [inflight EXCEPT ![m] = [pc |-> "stream1", currentRound |-> 1,
                                          turns |-> 0]]
  /\ UNCHANGED <<chatVars, execVars, adapterVars, retryVars, cleanVars, bootVars, requestVars, batchVars, socketVars, clientVars>>

\* the first stream of a round ends: the assistant text, if any, is appended;
\* without calls the loop is left and onComplete invoked, else the first call
\* is handed to the executor (lines 169-199)
FirstTurnEnds(m) ==
  /\ inflight[m].pc = "stream1"
  /\ \E text \in BOOLEAN, calls \in BOOLEAN :
       /\ calls => MayCall(m)
       /\ sessionLog' = IF text THEN Append(sessionLog, <<m, "assistant">>)
                        ELSE sessionLog
       /\ inflight' = [inflight EXCEPT
                         ![m].pc = IF calls THEN "tools1" ELSE "done",
                         ![m].turns = IF calls THEN @ + 1 ELSE @]
  /\ UNCHANGED <<chatVars, execVars, adapterVars, retryVars, cleanVars, bootVars, requestVars, batchVars, socketVars, clientVars>>

\* the tool of the first batch returns: its result is appended and the
\* follow-up stream requested (lines 199-215)
FirstBatchEnds(m) ==
  /\ inflight[m].pc = "tools1"
  /\ sessionLog' = Append(sessionLog, <<m, "system">>)
  /\ inflight' = [inflight EXCEPT ![m].pc = "stream2"]
  /\ UNCHANGED <<chatVars, execVars, adapterVars, retryVars, cleanVars, bootVars, requestVars, batchVars, socketVars, clientVars>>

\* the follow-up stream ends: text appended; new calls go to the executor,
\* otherwise (no call, or the repeated call) the loop is left (lines 227-275)
FollowUpEnds(m) ==
  /\ inflight[m].pc = "stream2"
  /\ \E text \in BOOLEAN, calls \in BOOLEAN :
       /\ calls => MayCall(m)
       /\ sessionLog' = IF text THEN Append(sessionLog, <<m, "assistant">>)
                        ELSE sessionLog
       /\ inflight' = [inflight EXCEPT
                         ![m].pc = IF calls THEN "tools2" ELSE "done",
                         ![m].turns = IF calls THEN @ + 1 ELSE @]
  /\ UNCHANGED <<chatVars, execVars, adapterVars, retryVars, cleanVars, bootVars, requestVars, batchVars, socketVars, clientVars>>

\* the tool of the second batch returns: result appended, continue; the next
\* round requests its stream unless the counter is at maxRounds (262-271, 138-151)
SecondBatchEnds(m) ==
  /\ inflight[m].pc = "tools2"
  /\ sessionLog' = Append(sessionLog, <<m, "system">>)
  /\ inflight' = [inflight EXCEPT
                    ![m].pc = IF inflight[m].currentRound < maxRounds
                              THEN "stream1" ELSE "done",
                    ![m].currentRound = IF inflight[m].currentRound < maxRounds
                                        THEN @ + 1 ELSE @]
  /\ UNCHANGED <<chatVars, execVars, adapterVars, retryVars, cleanVars, bootVars, requestVars, batchVars, socketVars, clientVars>>

\* the stream of message m throws: catch, onError (288-291)
StreamFails(m) ==
  /\ inflight[m].pc \in {"stream1", "stream2"}
  /\ inflight' = [inflight EXCEPT ![m].pc = "failed"]
  /\ UNCHANGED sessionLog
  /\ UNCHANGED <<chatVars, execVars, adapterVars, retryVars, cleanVars, bootVars, requestVars, batchVars, socketVars, clientVars>>

NextTwo ==
  \E m \in Messages :
    \/ Arrive(m)
    \/ FirstTurnEnds(m)
    \/ FirstBatchEnds(m)
    \/ FollowUpEnds(m)
    \/ SecondBatchEnds(m)
    \/ StreamFails(m)

InitTwo == ChatOff /\ ExecInit /\ AdapterOff /\ SideOff

SpecTwo == InitTwo /\ [][NextTwo]_vars

\* ------------------------------------------------------------ socket handler
\* onError emits a chunk
SocketEvent_errorAsChunk(cb) ==
  CASE cb \in {"onChunk", "completionNotice", "truncationNotice"} -> "streamChunk"
    [] cb = "onToolCall" -> "toolCall"
    [] cb = "onToolResult" -> "toolResult"
    [] cb = "onComplete" -> "streamEnd"
    [] cb = "onError" -> "streamChunk"

\* the event the handler's callback cb emits on the socket
\* (tools/index.ts 262-291)
SocketEvent(cb) ==
  CASE cb \in {"onChunk", "completionNotice", "truncationNotice"} -> "streamChunk"
    [] cb = "onToolCall" -> "toolCall"
    [] cb = "onToolResult" -> "toolResult"
    [] cb = "onComplete" -> "streamEnd"
    [] cb = "onError" -> "error"

\* what the handler has emitted to the requesting socket: STREAM_START before
\* the call, then one event per callback
Emitted ==
  <<"streamStart">> \o [i \in 1..Len(events) |-> SocketEvent(events[i])]

\* onComplete: messages = chatService.getMessages(sessionId), sent with STREAM_END
StreamEndMessages == getMessages(sessions, sessionId, 0)

\* ------------------------------------------------------------ cleaning one turn's text
\* the pieces a turn's text is made of: a letter, white space, the tool-call
\* markup and the thinking sentinels
TextTokens == {"a", " ", "<tc>", "</tc>", "[think]", "[/think]"}

\* the texts of at most n pieces
TextsUpTo(n) == UNION {[1..k -> TextTokens] : k \in 0..n}

\* lines 175-183 and 232-239: cleanContent = text.replace(...).trim();
\* if (cleanContent) addMessage(sessionId, { role: 'assistant', content })
CleanAppend ==
  /\ cleaning.pc = "raw"
  /\ cleaning' = [cleaning EXCEPT
                    !.content = CleanContent(cleaning.text),
                    !.pc = IF CleanContent(cleaning.text) # <<>>
                           THEN "appended" ELSE "skipped"]
  /\ UNCHANGED <<chatVars, execVars, adapterVars, retryVars, twoVars, bootVars, requestVars, batchVars, socketVars, clientVars>>

NextClean == CleanAppend

InitClean ==
  /\ ChatOff /\ ExecInit /\ AdapterOff
  /\ RetryOff /\ TwoOff /\ BootOff /\ RequestOff /\ BatchOff /\ SocketsOff /\ ClientOff
  /\ \E t \in TextsUpTo(MaxTextLen) :
       cleaning = [text |-> t, pc |-> "raw", content |-> <<>>]

SpecClean == InitClean /\ [][NextClean]_vars

\* ------------------------------------------------------------ process start
\* the values of the environment variables the start reads
EnvProviders == {"unset", "deepseek", "openai", "claude", "anthropic", "zhipu",
                 "ollama", "minimax", "DeepSeek", "other"}
EnvKeys == {"unset", "k"}
EnvModels == {"unset", "m"}

\* getConfig().ai: process.env.X || default
getConfig(env) ==
  [provider |-> IF env.AI_PROVIDER = "unset" THEN "deepseek" ELSE env.AI_PROVIDER,
   model |-> IF env.AI_MODEL = "unset" THEN "deepseek-chat" ELSE env.AI_MODEL,
   apiKey |-> IF env.AI_API_KEY = "unset" THEN "" ELSE env.AI_API_KEY]

\* String.prototype.toLowerCase on the names above
toLowerCase(name) == IF name = "DeepSeek" THEN "deepseek" ELSE name

\* validateConfig: const supportedProviders = [...]
supportedProviders == {"deepseek", "openai", "claude", "zhipu", "ollama", "minimax"}

\* validateConfig: what it throws, "ok" when it returns
validateConfig(env) ==
  IF getConfig(env).apiKey = "" THEN "AI_API_KEY missing"
  ELSE IF getConfig(env).provider \notin supportedProviders
       THEN "provider not supported"
       ELSE "ok"

\* createProvider: the class constructed, "throws" in the default branch
createProvider(name) ==
  CASE toLowerCase(name) = "deepseek" -> "DeepSeekProvider"
    [] toLowerCase(name) = "openai" -> "OpenAIProvider"
    [] toLowerCase(name) \in {"claude", "anthropic"} -> "ClaudeProvider"
    [] toLowerCase(name) = "ollama" -> "OllamaProvider"
    [] toLowerCase(name) = "minimax" -> "MiniMaxProvider"
    [] OTHER -> "throws"

\* the modules are loaded: ai.service constructs the provider at import,
\* export const aiService = new AIService()
LoadModules ==
  /\ boot.pc = "env"
  /\ boot' = IF createProvider(getConfig(boot.env).provider) = "throws"
             THEN [boot EXCEPT !.pc = "crashed", !.error = "createProvider"]
             ELSE [boot EXCEPT !.pc = "loaded"]
  /\ UNCHANGED <<chatVars, execVars, adapterVars, retryVars, twoVars, cleanVars, requestVars, batchVars, socketVars, clientVars>>

\* main: validateConfig(); startServer(); catch: process.exit(1)
Main ==
  /\ boot.pc = "loaded"
  /\ boot' = IF validateConfig(boot.env) = "ok"
             THEN [boot EXCEPT !.pc = "listening"]
             ELSE [boot EXCEPT !.pc = "exited", !.error = validateConfig(boot.env)]
  /\ UNCHANGED <<chatVars, execVars, adapterVars, retryVars, twoVars, cleanVars, requestVars, batchVars, socketVars, clientVars>>

NextBoot == LoadModules \/ Main

InitBoot ==
  /\ ChatOff /\ ExecInit /\ AdapterOff
  /\ RetryOff /\ TwoOff /\ CleanOff /\ RequestOff /\ BatchOff /\ SocketsOff /\ ClientOff
  /\ \E e \in [AI_PROVIDER : EnvProviders, AI_API_KEY : EnvKeys,
              AI_MODEL : EnvModels] :
       boot = [env |-> e, pc |-> "env", error |-> "-"]

SpecBoot == InitBoot /\ [][NextBoot]_vars

\* ------------------------------------------------------------ the request of a stream
\* the message lists the loop can hand to AIService.stream: user and assistant
\* messages and tool results (role system); the content names the position
MessageLists ==
  UNION {{[i \in 1..k |-> [role |-> rs[i], content |-> i]] :
            rs \in [1..k -> {"user", "assistant", "system"}]} : k \in 0..MaxMsgs}

\* AIService.stream: [{ role: 'system', content: this.systemPrompt }, ...messages]
fullMessages(ms) == <<[role |-> "system", content |-> systemPrompt]>> \o ms

\* messages.filter(m => m.role !== 'system')
chatMessages(ms) == SelectSeq(ms, LAMBDA m : m.role # "system")

\* messages.find(m => m.role === 'system'): its content, if there is one
systemMessage(ms) ==
  IF \E i \in 1..Len(ms) : ms[i].role = "system"
  THEN ms[CHOOSE i \in 1..Len(ms) :
            /\ ms[i].role = "system"
            /\ \A j \in 1..(i - 1) : ms[j].role # "system"].content
  ELSE NoContent

\* ClaudeProvider.formatMessages: role assistant stays, any other becomes user
claudeFormat(ms) ==
  [i \in 1..Len(ms) |->
     [role |-> IF ms[i].role = "assistant" THEN "assistant" ELSE "user",
      content |-> ms[i].content]]

\* the body the adapter p sends for the list ms it is given
requestBody(p, ms) ==
  CASE p = "minimax" -> [system |-> systemMessage(ms), messages |-> chatMessages(ms)]
    [] p = "claude" -> [system |-> NoContent, messages |-> claudeFormat(ms)]
    [] OTHER -> [system |-> NoContent, messages |-> ms]

\* aiService.stream(messages): the adapter builds and sends its request
SendRequest ==
  /\ request.pc = "called"
  /\ request' = [request EXCEPT
                   !.pc = "sent",
                   !.system = requestBody(request.provider,
                                          fullMessages(request.messages)).system,
                   !.sent = requestBody(request.provider,
                                        fullMessages(request.messages)).messages]
  /\ UNCHANGED <<chatVars, execVars, adapterVars, retryVars, twoVars, cleanVars, bootVars, batchVars, socketVars, clientVars>>

NextRequest == SendRequest

InitRequest ==
  /\ ChatOff /\ ExecInit /\ AdapterOff
  /\ RetryOff /\ TwoOff /\ CleanOff /\ BootOff /\ BatchOff /\ SocketsOff /\ ClientOff
  /\ \E p \in Providers, ms \in MessageLists :
       request = [NoRequest EXCEPT !.provider = p, !.messages = ms, !.pc = "called"]

SpecRequest == InitRequest /\ [][NextRequest]_vars

\* ------------------------------------------------------------ TaskExecutor.executeToolCalls
\* the lists of calls a caller can pass
CallLists == UNION {[1..k -> {CallA, CallB, CallZ}] : k \in 0..MaxBatch}

\* the loop goes on whatever the result
BatchGoesOn_always(result) == TRUE

\* if (!result.success) break
BatchGoesOn(result) == Success(result)

\* the call: results = []; the first call, if any, is handed to
\* executeToolCall, which notifies and awaits the registry; an empty list
\* returns at once
BatchBegin ==
  /\ toolBatch.pc = "called"
  /\ toolBatch' = IF toolBatch.calls = <<>>
              THEN [toolBatch EXCEPT !.pc = "returned"]
              ELSE [toolBatch EXCEPT !.pc = "await", !.i = 1,
                                 !.dispatched = <<toolBatch.calls[1]>>]
  /\ UNCHANGED <<chatVars, execVars, adapterVars, retryVars, twoVars, cleanVars, bootVars, requestVars, socketVars, clientVars>>

\* the registry call settles: results.push(result); break on a failure,
\* else the next call is dispatched, or the list returned after the last
BatchToolReturns ==
  /\ toolBatch.pc = "await"
  /\ \E b \in ToolBehaviours :
       LET result == registryExecute(toolBatch.calls[toolBatch.i].name, b).value
           more == BatchGoesOn(result) /\ toolBatch.i < Len(toolBatch.calls)
       IN toolBatch' = [toolBatch EXCEPT
                      !.results = Append(@, result),
                      !.pc = IF more THEN "await" ELSE "returned",
                      !.i = IF more THEN @ + 1 ELSE @,
                      !.dispatched = IF more THEN Append(@, toolBatch.calls[toolBatch.i + 1])
                                     ELSE @]
  /\ UNCHANGED <<chatVars, execVars, adapterVars, retryVars, twoVars, cleanVars, bootVars, requestVars, socketVars, clientVars>>

NextBatch == BatchBegin \/ BatchToolReturns

InitBatch ==
  /\ ChatOff /\ ExecInit /\ AdapterOff
  /\ RetryOff /\ TwoOff /\ CleanOff /\ BootOff /\ RequestOff /\ SocketsOff /\ ClientOff
  /\ \E cs \in CallLists : toolBatch = [NoBatch EXCEPT !.calls = cs, !.pc = "called"]

SpecBatch == InitBatch /\ [][NextBatch]_vars

\* ------------------------------------------------------------ socket server, two clients
\* an event on the wire: its name and the session whose message caused it
SocketMsg(name, s) == [name |-> name, session |-> s]

\* socket.emit: the event goes to the one socket
socketEmit(rcv, s, e) == [rcv EXCEPT ![s] = Append(@, e)]

\* io.emit: the event goes to every connected socket
ioEmit(rcv, e) == [t \in Sockets |-> Append(rcv[t], e)]

\* the events delivered so far, per socket
Received == [s \in Sockets |-> sockets[s].received]

\* the handler state of socket s set to pc, with the deliveries rcv
Delivered(rcv, s, pcNext, n) ==
  [t \in Sockets |-> IF t = s
                     THEN [pc |-> pcNext, calls |-> n, received |-> rcv[t]]
                     ELSE [sockets[t] EXCEPT !.received = rcv[t]]]

\* socket.on(MESSAGE): streamStart, then the provider streams
SocketMessage(s) ==
  /\ sockets[s].pc = "idle"
  /\ sockets' = Delivered(socketEmit(Received, s, SocketMsg("streamStart", s)),
                          s, "turn", sockets[s].calls)
  /\ UNCHANGED <<chatVars, execVars, adapterVars, retryVars, twoVars, cleanVars, bootVars, requestVars, batchVars, clientVars>>

\* a call of a batch starts: the first batch announces it to the socket, the
\* batch after the follow-up does not; execute reports the running task and
\* executeToolCall the call through the executor's callbacks, then awaits the tool
SocketToolStart(s) ==
  /\ sockets[s].pc = "turn"
  /\ sockets[s].calls < MaxSocketCalls
  /\ \E firstBatch \in BOOLEAN :
       LET r1 == IF firstBatch
                 THEN socketEmit(Received, s, SocketMsg("toolCall", s))
                 ELSE Received
           r2 == ioEmit(r1, SocketMsg("taskUpdate", s))
           r3 == ioEmit(r2, SocketMsg("toolCall", s))
       IN sockets' = Delivered(r3, s, "tool", sockets[s].calls)
  /\ UNCHANGED <<chatVars, execVars, adapterVars, retryVars, twoVars, cleanVars, bootVars, requestVars, batchVars, clientVars>>

\* the tool settles: executeToolCall reports the result and execute the
\* finished task through the executor's callbacks, then the chat service
\* reports the result to the socket's own callback
SocketToolSettles(s) ==
  /\ sockets[s].pc = "tool"
  /\ LET r1 == ioEmit(Received, SocketMsg("toolResult", s))
         r2 == ioEmit(r1, SocketMsg("taskUpdate", s))
         r3 == socketEmit(r2, s, SocketMsg("toolResult", s))
     IN sockets' = Delivered(r3, s, "turn", sockets[s].calls + 1)
  /\ UNCHANGED <<chatVars, execVars, adapterVars, retryVars, twoVars, cleanVars, bootVars, requestVars, batchVars, clientVars>>

\* onComplete: streamEnd
SocketStreamEnd(s) ==
  /\ sockets[s].pc = "turn"
  /\ sockets' = Delivered(socketEmit(Received, s, SocketMsg("streamEnd", s)),
                          s, "done", sockets[s].calls)
  /\ UNCHANGED <<chatVars, execVars, adapterVars, retryVars, twoVars, cleanVars, bootVars, requestVars, batchVars, clientVars>>

NextSockets ==
  \E s \in Sockets :
    \/ SocketMessage(s)
    \/ SocketToolStart(s)
    \/ SocketToolSettles(s)
    \/ SocketStreamEnd(s)

InitSockets ==
  /\ ChatOff /\ ExecInit /\ AdapterOff
  /\ RetryOff /\ TwoOff /\ CleanOff /\ BootOff /\ RequestOff /\ BatchOff /\ ClientOff
  /\ sockets = [s \in Sockets |-> [NoSockets[s] EXCEPT !.pc = "idle"]]

SpecSockets == InitSockets /\ [][NextSockets]_vars

\* ------------------------------------------------------------ client: useChat.sendMessage
\* what the user can submit: nothing but white space, or a text
Contents == {"", "a"}

\* socketService.sendMessage: the message event goes to the server
socketSend(c) == [c EXCEPT !.toServer = Append(@, "message"), !.sent = @ + 1]

\* sendMessage is called: it returns at once for an empty text or while
\* isStreaming; without a current session it awaits createSession; else it
\* appends the user message and emits the message event
SendMessage ==
  /\ client.pc = "mounted"
  /\ client.calls < MaxSends
  /\ \E content \in Contents :
       LET called == [client EXCEPT !.calls = @ + 1]
       IN client' = IF content = "" \/ client.isStreaming THEN called
                    ELSE IF client.currentSessionId = "null"
                    THEN [called EXCEPT !.creating = @ + 1]
                    ELSE socketSend(called)
  /\ UNCHANGED <<chatVars, execVars, adapterVars, retryVars, twoVars, cleanVars, bootVars, requestVars, batchVars, socketVars>>

\* apiService.createSession settles for a sendMessage call that awaits it:
\* with a session the call goes on and emits, with an error it returns
CreateSessionSettles ==
  /\ client.creating > 0
  /\ \E ok \in BOOLEAN :
       LET back == [client EXCEPT !.creating = @ - 1]
       IN client' = IF ok
                    THEN socketSend([back EXCEPT !.currentSessionId = "session"])
                    ELSE back
  /\ UNCHANGED <<chatVars, execVars, adapterVars, retryVars, twoVars, cleanVars, bootVars, requestVars, batchVars, socketVars>>

\* the server takes the message event: streamStart, then the message is processed
ServerReceives ==
  /\ client.toServer # <<>>
  /\ client' = [client EXCEPT !.toServer = Tail(@),
                              !.toClient = Append(@, "streamStart"),
                              !.serving = @ + 1]
  /\ UNCHANGED <<chatVars, execVars, adapterVars, retryVars, twoVars, cleanVars, bootVars, requestVars, batchVars, socketVars>>

\* the processing of one message ends: streamEnd or error
ServerEnds ==
  /\ client.serving > 0
  /\ \E e \in {"streamEnd", "error"} :
       client' = [client EXCEPT !.toClient = Append(@, e), !.serving = @ - 1]
  /\ UNCHANGED <<chatVars, execVars, adapterVars, retryVars, twoVars, cleanVars, bootVars, requestVars, batchVars, socketVars>>

\* the next event arrives: streamStart sets isStreaming, streamEnd and error clear it
ClientReceives ==
  /\ client.toClient # <<>>
  /\ client' = [client EXCEPT
                  !.toClient = Tail(@),
                  !.isStreaming = (Head(client.toClient) = "streamStart"),
                  !.ended = IF Head(client.toClient) = "streamStart" THEN @ ELSE @ + 1]
  /\ UNCHANGED <<chatVars, execVars, adapterVars, retryVars, twoVars, cleanVars, bootVars, requestVars, batchVars, socketVars>>

NextClient ==
  \/ SendMessage
  \/ CreateSessionSettles
  \/ ServerReceives
  \/ ServerEnds
  \/ ClientReceives

InitClient ==
  /\ ChatOff /\ ExecInit /\ AdapterOff
  /\ RetryOff /\ TwoOff /\ CleanOff /\ BootOff /\ RequestOff /\ BatchOff /\ SocketsOff
  /\ \E sid \in {"null", "session"} :
       client = [NoClient EXCEPT !.pc = "mounted", !.currentSessionId = sid]

SpecClient == InitClient /\ [][NextClient]_vars

\* ------------------------------------------------------------ properties
Range(s) == {s[i] : i \in 1..Len(s)}
Streaming == pc \in {"stream1", "stream2"}
Stopped == pc \in {"finish", "done"}
ExistingSession == sessionId \in DOMAIN sessions
\* the calls of the batch being executed
Batch == IF pc \in {"exec1", "wait1"} THEN pendingToolCalls ELSE newToolCalls

RECURSIVE CallsUpTo(_)
\* the number of calls of the first k finished turns
CallsUpTo(k) == IF k = 0 THEN 0 ELSE Len(turns[k].calls) + CallsUpTo(k - 1)

\* C1: the round counter stays in 0..maxRounds, and the loop body is entered
\* at most maxRounds times for one user message.
C1_RoundCounterBounded ==
  /\ currentRound \in 0..maxRounds
  /\ bodyEntries \in 0..maxRounds
  /\ bodyEntries = currentRound

\* the round cap was reached: five rounds were run
C1_Witness == pc = "done" /\ currentRound = maxRounds /\ bodyEntries = maxRounds

\* C2: when every turn ends, brings text and at least one tool call, and every
\* tool returns, the run reaches onComplete with the counter at maxRounds.
C2_BusyRunEndsAtCap ==
  <>(pc = "done" /\ currentRound = maxRounds
     /\ events[Len(events)] = "onComplete")

\* a run of busy turns has completed
C2_Witness == profile = "busy" /\ pc = "done" /\ Len(turns) = 2 * maxRounds

\* C3 (as amended): with an existing session, when a stream is requested every
\* result of the batch just executed is in the log, the list handed over is
\* the last ContextLimit messages of the log, and it holds the last
\* ContextLimit results of the batch (all of them when there are no more).
C3_ResultsVisibleWithinWindow ==
  (Streaming /\ ExistingSession) =>
    /\ \A i \in 1..Len(batchResults) : batchResults[i] \in Range(Log)
    /\ handed = LastN(Log, ContextLimit)
    /\ \A i \in 1..Len(batchResults) :
         i > Len(batchResults) - ContextLimit => batchResults[i] \in Range(handed)

\* a follow-up stream is requested after a batch of two calls
C3_Witness ==
  pc = "stream2" /\ ExistingSession /\ turnChunks = 0 /\ Len(batchResults) >= 2

\* C3 as claimed: the list handed to the next stream holds every result of the
\* batch just executed.
C3_AllResultsHanded ==
  (Streaming /\ ExistingSession) =>
    \A i \in 1..Len(batchResults) : batchResults[i] \in Range(handed)

\* C4: the calls of a turn are dispatched one at a time in stream order: while
\* call idx runs, exactly the calls before it have their result message
\* appended, and the dispatches of the batch follow its order.
C4_SequentialInOrder ==
  pc \in {"wait1", "wait2"} =>
    /\ task.status = "running"
    /\ task.params = Batch[idx]
    /\ Len(batchResults) = idx - 1
    /\ Len(executed) >= idx
    /\ SubSeq(executed, Len(executed) - idx + 1, Len(executed))
         = SubSeq(Batch, 1, idx)
    /\ \A i \in 1..(idx - 1) :
         /\ batchResults[i].content[2] = Batch[i].name
         /\ ExistingSession => batchResults[i] \in Range(Log)

\* the second call of a batch of two different calls is running
C4_Witness ==
  /\ pc = "wait1"
  /\ idx = 2
  /\ pendingToolCalls[1] # pendingToolCalls[2]
  /\ ExistingSession

\* C5: after a turn without tool calls no stream is requested and no tool is
\* executed: the run is at its end, and it ends with onComplete.
C5_NoCallsEndsLoop ==
  (turns # <<>> /\ turns[Len(turns)].calls = <<>>) =>
    /\ Stopped
    /\ streamCalls = Len(turns)
    /\ Len(executed) = CallsUpTo(Len(turns))
    /\ pc = "done" => events[Len(events)] = "onComplete"

\* a follow-up turn without calls ended the run
C5_Witness ==
  /\ pc = "done"
  /\ Len(turns) = 2
  /\ turns[1].calls # <<>>
  /\ turns[2].calls = <<>>

\* C6: when turn K+1 has no text and its only call repeats the last executed
\* call of turn K, the loop ends at turn K+1 and the call is not executed again.
C6_NoRepeatAcrossTurns ==
  \A k \in 1..(Len(turns) - 1) :
    ( /\ turns[k].calls # <<>>
      /\ turns[k + 1].text = <<>>
      /\ turns[k + 1].calls = <<turns[k].calls[Len(turns[k].calls)]>> )
    => /\ Len(turns) = k + 1
       /\ Len(executed) <= CallsUpTo(k)

Terminal == {"completed", "failed", "cancelled"}

\* C7: a task's statuses are pending, then running, then one of completed,
\* failed, cancelled, each step taken once, and nothing after the last.
C7_TaskLifecycle ==
  \A t \in TaskIds :
    /\ Len(trail[t]) <= 3
    /\ Len(trail[t]) >= 1 => trail[t][1] = "pending"
    /\ Len(trail[t]) >= 2 => trail[t][2] = "running"
    /\ Len(trail[t]) >= 3 => trail[t][3] \in Terminal


\* ---- adapter streams
Front(w) == SubSeq(w, 1, Len(w) - 1)
Last(w) == w[Len(w)]

\* the event opens a tool call
IsStart(p, ev) ==
  IF p = "ollama" THEN FALSE
  ELSE IF p = "deepseek"
  THEN ev.delta /\ ~ev.finish_reason /\ Len(ev.tool_calls) = 1 /\ ev.tool_calls[1].id # ""
  ELSE IF p = "claude" THEN ev.type = "content_block_start"
  ELSE ev.line = "data" /\ ev.data = "json" /\ ev.content_block.type = "tool_use"

\* the event carries a fragment of argument text
IsFragment(p, ev) ==
  IF p = "ollama" THEN FALSE
  ELSE IF p = "deepseek"
  THEN ev.delta /\ ~ev.finish_reason /\ Len(ev.tool_calls) = 1 /\ ev.tool_calls[1].id = ""
  ELSE IF p = "claude" THEN ev.delta.type = "input_json_delta"
  ELSE ev.line = "data" /\ ev.data = "json" /\ ev.delta.type = "input_json_delta"

FragmentText(p, ev) ==
  IF p = "deepseek" THEN ev.tool_calls[1].arguments ELSE ev.delta.partial_json

\* the event is the vendor's finish marker
IsFinish(p, ev) ==
  IF p = "ollama" THEN FALSE
  ELSE IF p = "deepseek" THEN ev.delta /\ ev.finish_reason /\ ev.tool_calls = <<>>
  ELSE IF p = "claude" THEN ev.type = "message_stop"
  ELSE ev.line = "data" /\ ev.data = "json" /\ ev.type = "message_stop"

\* an event carrying the text t as one fragment
FragmentOf(p, t) ==
  IF p = "deepseek" THEN DsChunk(TRUE, NoText, <<DsDelta("", "", t)>>, FALSE)
  ELSE IF p = "claude" THEN Event("content_block_delta", NoBlock, JsonDelta(t))
  ELSE Line("data", "json", Event("content_block_delta", NoBlock, JsonDelta(t)))

\* the start event with no argument text of its own
BareStart(p, ev) ==
  IF p = "deepseek"
  THEN DsChunk(TRUE, NoText, <<DsDelta(ev.tool_calls[1].id, ev.tool_calls[1].name, <<>>)>>, FALSE)
  ELSE ev

StartText(p, ev) == IF p = "deepseek" THEN ev.tool_calls[1].arguments ELSE <<>>

\* the events are one tool call: a start, fragments, the finish marker
OneCall(p, w) ==
  /\ Len(w) >= 3
  /\ IsStart(p, w[1])
  /\ IsFinish(p, w[Len(w)])
  /\ \A i \in 2..(Len(w) - 1) : IsFragment(p, w[i])

RECURSIVE JoinFragments(_, _)
JoinFragments(p, w) ==
  IF w = <<>> THEN <<>> ELSE FragmentText(p, Head(w)) \o JoinFragments(p, Tail(w))

\* the argument text of a one-call stream
CallText(p, w) == StartText(p, w[1]) \o JoinFragments(p, SubSeq(w, 2, Len(w) - 1))

\* the same call with its argument text in a single fragment
Merged(p, w) == <<BareStart(p, w[1]), FragmentOf(p, CallText(p, w)), Last(w)>>

\* the tool calls among the chunks
RECURSIVE ToolCallsOf(_)
ToolCallsOf(out) ==
  IF out = <<>> THEN <<>>
  ELSE (IF Head(out).toolCall # NoCall THEN <<Head(out).toolCall>> ELSE <<>>)
       \o ToolCallsOf(Tail(out))

\* C8: when the accumulated argument text of the pending call is not valid
\* JSON at the finish marker, the DeepSeek, Claude and MiniMax adapters still
\* emit a ToolCall for that call, with an empty argument mapping, and the
\* stream does not fail.
C8_MalformedArgumentsGiveEmptyMapping ==
  (/\ wire # <<>>
   /\ IsFinish(provider, Last(wire))
   /\ Run(provider, NoAdapter, Front(wire)).status = "open"
   /\ Run(provider, NoAdapter, Front(wire)).currentToolCall # <<>>
   /\ ~ParseOK(OrEmptyObject(Run(provider, NoAdapter, Front(wire)).currentToolCall[1].arguments)))
  => /\ adapter.status # "thrown"
     /\ \E i \in 1..Len(adapter.out) :
          /\ adapter.out[i].toolCall.id =
               Run(provider, NoAdapter, Front(wire)).currentToolCall[1].id
          /\ adapter.out[i].toolCall.arguments = <<>>

\* C9: for one tool call whose argument text arrives in fragments, however
\* the text is split, the accumulated text, the emitted chunks and the
\* outcome of the stream are those of the same text arriving as a single
\* fragment.
C9_FragmentsAccumulate ==
  OneCall(provider, wire) =>
    /\ Run(provider, NoAdapter, Front(wire)).currentToolCall
         = Run(provider, NoAdapter, Front(Merged(provider, wire))).currentToolCall
    /\ adapter.out = Run(provider, NoAdapter, Merged(provider, wire)).out
    /\ (adapter.status = "thrown")
         <=> (Run(provider, NoAdapter, Merged(provider, wire)).status = "thrown")

C9_Witness ==
  /\ OneCall(provider, wire)
  /\ Len(wire) >= 4
  /\ CallText(provider, wire) = <<"{", "p", "}">>
  /\ ToolCallsOf(adapter.out) # <<>>
  /\ ToolCallsOf(adapter.out)[1].arguments = ArgsY

RECURSIVE Count(_, _)
\* the chunks of out whose content is the single token tok
Count(out, tok) ==
  IF out = <<>> THEN 0
  ELSE (IF Head(out).content = <<tok>> THEN 1 ELSE 0) + Count(Tail(out), tok)

\* C10: once the MiniMax stream has ended (message_stop, '[DONE]' or the end
\* of the transport), every open sentinel emitted has a matching close
\* sentinel before the final marker, and no close comes before its open.
C10_SentinelsBalanced ==
  (provider = "minimax" /\ adapter.status = "returned") =>
    /\ Count(adapter.out, "[think]") = Count(adapter.out, "[/think]")
    /\ \A i \in 1..Len(adapter.out) :
         Count(SubSeq(adapter.out, 1, i), "[/think]")
           <= Count(SubSeq(adapter.out, 1, i), "[think]")


\* ---- MiniMax hybrid turns
RECURSIVE StartsOf(_, _)
\* the tool-call start events of w, in order
StartsOf(p, w) ==
  IF w = <<>> THEN <<>>
  ELSE (IF IsStart(p, Head(w)) THEN <<Head(w)>> ELSE <<>>) \o StartsOf(p, Tail(w))

RECURSIVE WireText(_)
\* the text of the MiniMax text deltas of w
WireText(w) ==
  IF w = <<>> THEN <<>>
  ELSE (IF Head(w).line = "data" /\ Head(w).data = "json"
           /\ Head(w).delta.type = "text_delta"
        THEN Head(w).delta.text ELSE <<>>)
       \o WireText(Tail(w))

\* a finished MiniMax turn with one tool_use block and one inline invocation
HybridTurn ==
  /\ provider = "minimax"
  /\ adapter.status = "returned"
  /\ Len(StartsOf(provider, wire)) = 1
  /\ Len(InlineCalls(WireText(wire), 1)) = 1

BlockName == StartsOf(provider, wire)[1].content_block.name
InlineName == InlineCalls(WireText(wire), 1)[1].name

RECURSIVE Completes(_)
\* the chunks of out with isComplete
Completes(out) ==
  IF out = <<>> THEN 0
  ELSE (IF Head(out).isComplete THEN 1 ELSE 0) + Completes(Tail(out))

\* the argument text collected for the tool_use block
BlockText == Run(provider, NoAdapter, Front(wire)).currentToolCall[1].arguments

\* the hybrid turn ended with message_stop and the block's argument text is
\* empty or valid JSON
WellFormedTurn ==
  /\ HybridTurn
  /\ IsFinish(provider, Last(wire))
  /\ ParseOK(OrEmptyObject(BlockText))

C12_SameCallSurfacedOnce ==
  (/\ WellFormedTurn
   /\ BlockName = InlineName
   /\ ParseJSON(OrEmptyObject(BlockText)) = InlineCalls(WireText(wire), 1)[1].arguments)
  => Len(ToolCallsOf(adapter.out)) = 1

\* C13: once stream() has ended, for any adapter and any vendor events, it
\* has emitted exactly one chunk with isComplete, and that chunk is the last.
C13_ExactlyOneFinalChunk ==
  adapter.status # "open" =>
    /\ Completes(adapter.out) = 1
    /\ adapter.out[Len(adapter.out)].isComplete


\* ---- several tool calls in one turn
StartId(p, ev) == IF p = "deepseek" THEN ev.tool_calls[1].id ELSE ev.content_block.id
StartName(p, ev) == IF p = "deepseek" THEN ev.tool_calls[1].name ELSE ev.content_block.name

RECURSIVE SegmentsOf(_, _)
\* for starts and fragments w beginning with a start: the argument text that
\* belongs to each call (its start's text and the fragments up to the next start)
SegmentsOf(p, w) ==
  IF w = <<>> THEN <<>>
  ELSE IF IsStart(p, Last(w))
  THEN Append(SegmentsOf(p, Front(w)), StartText(p, Last(w)))
  ELSE [SegmentsOf(p, Front(w)) EXCEPT ![Len(SegmentsOf(p, Front(w)))] =
          @ \o FragmentText(p, Last(w))]

\* a turn of provider p that is N >= 2 tool calls with distinct ids, each
\* with argument text that is empty or valid JSON, and then the finish marker
MultiCallTurn(p) ==
  /\ provider = p
  /\ Len(wire) >= 3
  /\ IsFinish(p, Last(wire))
  /\ IsStart(p, wire[1])
  /\ \A i \in 1..(Len(wire) - 1) : IsStart(p, wire[i]) \/ IsFragment(p, wire[i])
  /\ Len(StartsOf(p, wire)) >= 2
  /\ \A i, j \in 1..Len(StartsOf(p, wire)) :
       i # j => StartId(p, StartsOf(p, wire)[i]) # StartId(p, StartsOf(p, wire)[j])
  /\ \A k \in 1..Len(StartsOf(p, wire)) :
       ParseOK(OrEmptyObject(SegmentsOf(p, Front(wire))[k]))

\* the stream surfaced one ToolCall per call of the turn, in the order the
\* calls were opened, each with its id, its name and its own arguments
AllCallsSurfaced(p) ==
  /\ Len(ToolCallsOf(adapter.out)) = Len(StartsOf(p, wire))
  /\ \A k \in 1..Len(StartsOf(p, wire)) :
       ToolCallsOf(adapter.out)[k] =
         [id |-> StartId(p, StartsOf(p, wire)[k]),
          name |-> StartName(p, StartsOf(p, wire)[k]),
          arguments |-> ParseJSON(OrEmptyObject(SegmentsOf(p, Front(wire))[k]))]

\* C14: a DeepSeek turn carrying N >= 2 tool calls with distinct ids yields N
\* ToolCalls, each with its own id and name and with arguments parsed from
\* exactly the fragments that belong to that call.
C14_DeepSeekCallsKeyedById == MultiCallTurn("deepseek") => AllCallsSurfaced("deepseek")

\* C15: a Claude turn with N >= 2 tool_use blocks yields N ToolCalls in
\* block-open order, each finalized from the partial_json deltas received
\* while its own block was open.
C15_ClaudeCallsInBlockOrder == MultiCallTurn("claude") => AllCallsSurfaced("claude")


\* ---- registry and executor
\* C16: ToolRegistry.execute never rejects: for an unregistered tool name
\* and for a registered tool that throws, it resolves to a result with
\* success false and an error string.
C16_RegistryNeverThrows ==
  \A t \in TaskIds :
    /\ toolRuns[t] # "" =>
         /\ tasks[t].result # <<>>
         /\ <<"tool-result">> \in Range(notes[t])
    /\ toolRuns[t] \in {"missing", "throws"} =>
         /\ ~Success(tasks[t].result)
         /\ tasks[t].result[2][1] = "error"
         /\ tasks[t].result[2][2] # ""

C16_Witness ==
  \E t, u \in TaskIds : toolRuns[t] = "missing" /\ toolRuns[u] = "throws"

\* C18: for a task that is not cancelled, execute sets the status to running
\* before the registry is called, and ends with completed exactly when the
\* result has success true and with failed otherwise, an unregistered tool
\* name included; execute always comes to its end.
C18_ExecuteOutcome ==
  \A t \in TaskIds :
    "cancelled" \notin Range(trail[t]) =>
      /\ notes[t] # <<>> =>
           /\ SubSeq(trail[t], 1, 2) = <<"pending", "running">>
           /\ SubSeq(notes[t], 1, 2) = << <<"task-updated", "running">>, <<"tool-called">> >>
      /\ tasks[t].status = "running" => t \in awaiting /\ toolRuns[t] = ""
      /\ toolRuns[t] # "" =>
           /\ tasks[t].status = IF Success(tasks[t].result) THEN "completed" ELSE "failed"
           /\ trail[t] = <<"pending", "running", tasks[t].status>>
           /\ (toolRuns[t] = "ok") <=> Success(tasks[t].result)
           /\ tasks[t].params.name \notin Registered => tasks[t].status = "failed"

C18_Witness ==
  \E t, u \in TaskIds :
    /\ toolRuns[t] = "ok" /\ tasks[t].status = "completed"
    /\ toolRuns[u] = "missing" /\ tasks[u].status = "failed"
    /\ "cancelled" \notin Range(trail[t]) \cup Range(trail[u])

\* C19: cancelTask on a task that is still pending sets it to cancelled and
\* returns true, and the task is never dispatched afterwards; on a task whose
\* tool is running it does not stop the tool.
C19_CancelPendingTask ==
  \A e \in cancelLog :
    /\ e[2] = "pending" =>
         /\ e[3]
         /\ "cancelled" \in Range(trail[e[1]])
         /\ "running" \notin Range(trail[e[1]])
    /\ e[2] = "running" => (toolRuns[e[1]] = "" => e[1] \in awaiting)

NotCancelNote(n) == n # <<"task-updated", "cancelled">>

RECURSIVE UpdatesOf(_)
\* the statuses carried by the task-updated notifications, in order
UpdatesOf(ns) ==
  IF ns = <<>> THEN <<>>
  ELSE (IF Head(ns)[1] = "task-updated" THEN <<Head(ns)[2]>> ELSE <<>>)
       \o UpdatesOf(Tail(ns))

\* C20: the task-updated notifications of a task carry exactly its status
\* changes, in order, and the notifications of its execute come in the order
\* task-updated(running), tool-called, tool-result, task-updated(final status).
C20_NotificationsFollowStatus ==
  \A t \in TaskIds :
    /\ trail[t] # <<>> => UpdatesOf(notes[t]) = Tail(trail[t])
    /\ LET own == SelectSeq(notes[t], NotCancelNote)
       IN /\ Len(own) \in {0, 2, 4}
          /\ Len(own) >= 2 =>
               SubSeq(own, 1, 2) = << <<"task-updated", "running">>, <<"tool-called">> >>
          /\ Len(own) = 4 =>
               /\ own[3] = <<"tool-result">>
               /\ own[4] = <<"task-updated", tasks[t].status>>
               /\ tasks[t].status \in {"completed", "failed"}
          /\ (Len(own) = 4) <=> (toolRuns[t] # "")

C20_Witness ==
  \E t \in TaskIds :
    /\ Len(notes[t]) = 5
    /\ notes[t][3] = <<"task-updated", "cancelled">>


\* C17: whatever the result of a tool call, failed ones included, its result
\* message is appended to the log, the remaining calls of the turn are
\* executed next, in order, and after the last call of the first batch the
\* follow-up stream is requested (after the second batch the next round is
\* tried, subject to the round cap).
C17_FailedResultDoesNotEndLoop ==
  [][/\ (pc = "wait1" /\ pc' # "wait1") =>
          /\ pc' = IF idx < Len(pendingToolCalls) THEN "exec1" ELSE "fetch2"
          /\ Len(batchResults') = idx
          /\ ExistingSession => Log'[Len(Log')] = batchResults'[idx]
     /\ (pc = "wait2" /\ pc' # "wait2") =>
          /\ pc' = IF idx < Len(newToolCalls) THEN "exec2" ELSE "loop"
          /\ Len(batchResults') = idx
          /\ ExistingSession => Log'[Len(Log')] = batchResults'[idx]
     /\ (pc = "exec1" /\ pc' # "exec1") =>
          /\ pc' = "wait1"
          /\ executed' = Append(executed, pendingToolCalls[idx])
     /\ (pc = "fetch2" /\ pc' # "fetch2") =>
          /\ pc' = "stream2"
          /\ streamCalls' = streamCalls + 1
          /\ Len(batchResults) = Len(pendingToolCalls)
    ]_vars

C17_Witness ==
  /\ pc = "stream2"
  /\ ExistingSession
  /\ Len(pendingToolCalls) = 2
  /\ Len(batchResults) = 2
  /\ batchResults[1].content = toolResultMessage(pendingToolCalls[1], ResultFail)
  /\ batchResults[2].content = toolResultMessage(pendingToolCalls[2], ResultOk)

\* the attempts of the retry call that ended in an error
FailedAttempts == {k \in 1..Len(retry.attempts) : retry.attempts[k] \in FnErrors}

\* C21: retry invokes the request at most maxRetries times; when it returns,
\* the last attempt is the only one that succeeded and its value is the one
\* returned; when it throws, every one of the maxRetries attempts failed and
\* the error thrown is that of the last attempt.
C21_RetryBoundedAndFaithful ==
  /\ Len(retry.attempts) <= retry.maxRetries
  /\ retry.pc = "returned" =>
       /\ Len(retry.attempts) >= 1
       /\ FailedAttempts = 1..(Len(retry.attempts) - 1)
       /\ retry.settled = retry.attempts[Len(retry.attempts)]
       /\ retry.settled \in FnValues
  /\ retry.pc = "thrown" =>
       /\ Len(retry.attempts) = retry.maxRetries
       /\ FailedAttempts = 1..retry.maxRetries
       /\ retry.maxRetries >= 1 =>
            retry.settled = retry.attempts[Len(retry.attempts)]

\* a call with the default limit fails twice with different errors and then
\* succeeds, and another call with that limit fails three times
C21_Witness ==
  /\ retry.maxRetries = DefaultMaxRetries
  /\ \/ /\ retry.pc = "returned"
        /\ Len(retry.attempts) = DefaultMaxRetries
        /\ retry.attempts[1] # retry.attempts[2]
     \/ /\ retry.pc = "thrown"
        /\ retry.attempts[1] # retry.attempts[DefaultMaxRetries]

\* how often x occurs in the sequence s
Times(s, x) == Cardinality({k \in 1..Len(s) : s[k] = x})

\* C22: a provider stream that fails, at the request or in mid-stream, is not
\* requested again: the step that fails it reports onError once, never
\* onComplete, appends nothing to the session log (the partial text of the turn
\* is dropped), dispatches no tool, and the call ends there; a stream is
\* requested only on entering a round or after a batch of tools.
C22_StreamFailureNotRetried ==
  [][/\ pc # "failed"
     /\ streamCalls' # streamCalls => pc \in {"loop", "fetch2"}
     /\ (Streaming /\ pc' \notin {"stream1", "post1", "stream2", "post2"}) =>
          /\ pc' = "failed"
          /\ events' = Append(events, "onError")
          /\ Times(events', "onError") = 1
          /\ Times(events', "onComplete") = 0
          /\ sessions' = sessions
          /\ streamCalls' = streamCalls
          /\ executed' = executed
    ]_vars

\* the follow-up stream of a round failed after delivering text, and the
\* first stream of another run failed before its first chunk
C22_Witness ==
  /\ pc = "failed"
  /\ ExistingSession
  /\ \/ /\ followUpContent # <<>>
        /\ executed # <<>>
     \/ /\ streamCalls = 1
        /\ turnChunks = 0

\* C23: the number of provider stream invocations made for one user message
\* never exceeds maxRounds, and once the call has ended it equals the final
\* value of the round counter.
C23_OneStreamPerRound ==
  /\ streamCalls <= maxRounds
  /\ pc = "done" => streamCalls = currentRound

\* C24: when the loop test fails because the counter reached maxRounds, the
\* call goes on to its end without requesting a stream or running a tool:
\* the truncation notice is delivered as a chunk, onComplete follows it
\* directly, and onError is not invoked.
C24_RoundLimitEndsWithNotice ==
  [][/\ (pc = "loop" /\ currentRound >= maxRounds) =>
          /\ pc' = "finish"
          /\ events' = events
          /\ executed' = executed
          /\ streamCalls' = streamCalls
     /\ (pc = "finish" /\ currentRound >= maxRounds) =>
          /\ pc' = "done"
          /\ events' = events \o <<"truncationNotice", "onComplete">>
          /\ Times(events', "onError") = 0
          /\ Times(events', "onComplete") = 1
          /\ Times(events', "truncationNotice") = 1
          /\ executed' = executed
          /\ streamCalls' = streamCalls
     /\ (pc = "done" /\ currentRound >= maxRounds) => UNCHANGED vars
    ]_vars

\* the fifth round ran its second batch, the loop test failed, and the call
\* has ended
C24_Witness ==
  /\ pc = "done"
  /\ currentRound = maxRounds
  /\ Len(newToolCalls) > 0
  /\ ~DuplicateCall
  /\ idx > Len(newToolCalls)
  /\ events[Len(events)] = "onComplete"

\* the messages whose call is consuming a provider stream, running a tool
StreamingNow == {m \in Messages : inflight[m].pc \in {"stream1", "stream2"}}
InTools == {m \in Messages : inflight[m].pc \in {"tools1", "tools2"}}

\* the entries of one message are next to each other in the log
Contiguous ==
  \A i, j, k \in 1..Len(sessionLog) :
    (i < j /\ j < k /\ sessionLog[i][1] = sessionLog[k][1]) =>
      sessionLog[j][1] = sessionLog[i][1]

\* C25: for one session at most one provider stream is being consumed at any
\* time; the streams and tool executions of a second message do not overlap
\* those of the first, and the log entries of the two do not interleave.
C25_OneMessageAtATime ==
  /\ Cardinality(StreamingNow) <= 1
  /\ Cardinality(StreamingNow \cup InTools) <= 1
  /\ Contiguous

TerminalEvents == {"streamEnd", "error"}

\* C26: the events emitted to the requesting client for one message start
\* with streamStart; a terminal event (streamEnd, carrying the session log,
\* or error) is emitted exactly when the call has ended, there is one of them
\* and it is the last event, so no streamChunk or toolResult follows it.
C26_EventsBracketed ==
  LET e == Emitted
      ends == {i \in 1..Len(e) : e[i] \in TerminalEvents}
  IN /\ e[1] = "streamStart"
     /\ Times(e, "streamStart") = 1
     /\ ends = IF pc \in {"done", "failed"} THEN {Len(e)} ELSE {}
     /\ pc = "done" => e[Len(e)] = "streamEnd"
     /\ (pc = "done" /\ ExistingSession) => StreamEndMessages = sessions[sessionId]
     /\ pc = "failed" => e[Len(e)] = "error"

\* a call that delivered chunks and a tool result has sent streamEnd
C26_Witness ==
  /\ pc = "done"
  /\ ExistingSession
  /\ Times(Emitted, "toolResult") >= 1
  /\ Times(Emitted, "streamChunk") >= 2
  /\ Len(StreamEndMessages) >= 3

\* the assistant messages of the session log, in order
AssistantMessages == SelectSeq(Log, LAMBDA msg : msg.role = "assistant")

\* the call has ended after a single turn that carried text and no tool call,
\* for a session that exists
TextOnlyRun ==
  /\ pc = "done"
  /\ ExistingSession
  /\ Len(turns) = 1
  /\ pendingToolCalls = <<>>
  /\ assistantContent # <<>>

\* what a text-only run does apart from the assistant message
TextOnlyRunEnds ==
  /\ streamCalls = 1
  /\ executed = <<>>
  /\ currentRound = 1
  /\ events[Len(events)] = "onComplete"
  /\ Times(events, "onComplete") = 1
  /\ Times(events, "truncationNotice") = 0
  /\ Times(events, "onError") = 0

\* C27: when the first turn for an existing session carries only text deltas
\* and the final marker, one stream call is made, no tool is executed, the
\* round counter is 1, onComplete is invoked without a truncation notice, and
\* exactly one assistant message is appended, whose content is the in-order
\* concatenation of the deltas.
C27_TextOnlyTurn ==
  TextOnlyRun =>
    /\ TextOnlyRunEnds
    /\ Len(AssistantMessages) = 1
    /\ AssistantMessages[1].content = assistantContent

\* C27 (as amended): as above, but the content of the assistant message is
\* the concatenation of the deltas with tool-call markup removed and
\* trimmed, and no assistant message is appended when that is empty.
C27_TextOnlyTurnCleaned ==
  TextOnlyRun =>
    /\ TextOnlyRunEnds
    /\ IF CleanContent(assistantContent) = <<>>
       THEN AssistantMessages = <<>>
       ELSE /\ Len(AssistantMessages) = 1
            /\ AssistantMessages[1].content = CleanContent(assistantContent)

\* a text-only turn of three deltas, the first of them white space
C27_Witness ==
  /\ TextOnlyRun
  /\ assistantContent = <<" ", "a", "a">>
  /\ Len(AssistantMessages) = 1

\* the call has ended after two turns: a single tool call without text, whose
\* tool succeeded, then text only
CallThenTextRun ==
  /\ pc = "done"
  /\ ExistingSession
  /\ Len(turns) = 2
  /\ turns[1].text = <<>> /\ assistantContent = <<>>
  /\ Len(turns[1].calls) = 1
  /\ Len(batchResults) = 1
  /\ batchResults[1].content = toolResultMessage(turns[1].calls[1], ResultOk)
  /\ turns[2].calls = <<>>
  /\ turns[2].text # <<>>

\* C28: when turn 1 emits a single tool call and no text, the tool succeeds,
\* and turn 2 emits only text and the final marker, the call ends with
\* onComplete, the round counter is 2, and exactly one tool was executed.
C28_CallThenTextUsesTwoRounds ==
  CallThenTextRun =>
    /\ events[Len(events)] = "onComplete"
    /\ Len(executed) = 1
    /\ currentRound = 2

\* s holds the piece sequence seg at position k
HoldsAt(s, seg, k) ==
  /\ k + Len(seg) - 1 <= Len(s)
  /\ SubSeq(s, k, k + Len(seg) - 1) = seg

Holds(s, seg) == \E k \in 1..Len(s) : HoldsAt(s, seg, k)

\* the segments of s from an opening token to the nearest closing token
Segments(s, open, close) ==
  {SubSeq(s, i, IndexFrom(s, close, i + 1)) :
     i \in {j \in 1..Len(s) : s[j] = open /\ IndexFrom(s, close, j + 1) # 0}}

\* C29: an assistant message that is appended has no tool-call markup
\* segment and holds every thinking segment of the turn's text unchanged.
C29_MarkupOutThinkingKept ==
  cleaning.pc = "appended" =>
    /\ Segments(cleaning.content, "<tc>", "</tc>") = {}
    /\ \A seg \in Segments(cleaning.text, "[think]", "[/think]") :
         Holds(cleaning.content, seg)

\* C30: a configuration with a missing credential, or with a provider name
\* createProvider cannot construct, is rejected by validateConfig, so that
\* main exits without starting the server; every provider name
\* validateConfig accepts is one createProvider supports.
C30_ValidateRejectsWhatCannotBeBuilt ==
  LET cfg == getConfig(boot.env)
      unusable == cfg.apiKey = "" \/ createProvider(cfg.provider) = "throws"
  IN boot.pc \in {"crashed", "exited", "listening"} =>
       /\ unusable => validateConfig(boot.env) # "ok"
       /\ unusable => boot.pc = "exited" /\ boot.error = validateConfig(boot.env)

\* C31: once the call has stored the user message, a session is retrievable
\* under the sessionId of the call, whether or not one existed before, and
\* its log holds the user message; the list handed to a provider stream holds
\* the user's text.
C31_SessionCreatedUnderCallId ==
  pc \notin {"begin", "off"} =>
    /\ sessionId \in DOMAIN sessions
    /\ \E i \in 1..Len(Log) : Log[i].role = "user" /\ Log[i].content = UserText
    /\ Streaming =>
         \E i \in 1..Len(handed) :
           handed[i].role = "user" /\ handed[i].content = UserText

\* C32: the truncation notice is emitted only when the loop test stopped the
\* loop: never in a run whose last streamed turn had no tool call, and never
\* in a run the duplicate-call guard ended.
C32_NoticeOnlyAtRoundCap ==
  (pc = "done" /\ Times(events, "truncationNotice") > 0) =>
    /\ turns # <<>>
    /\ turns[Len(turns)].calls # <<>>
    /\ Times(events, "completionNotice") = 0

\* C33: whatever the adapter, every tool-result message (role system) of the
\* list given to stream() is among the messages of the request sent.
C33_ToolResultsForwarded ==
  request.pc = "sent" =>
    \A i \in 1..Len(request.messages) :
      request.messages[i].role = "system" =>
        \E j \in 1..Len(request.sent) :
          request.sent[j].content = request.messages[i].content

\* the follow-up turn just streamed has no text left after cleaning and its
\* first call repeats, by name and serialized arguments, the call executed last
RepeatsLastCall ==
  /\ pc = "post2"
  /\ CleanContent(followUpContent) = <<>>
  /\ newToolCalls # <<>>
  /\ executed # <<>>
  /\ newToolCalls[1].name = executed[Len(executed)].name
  /\ Stringify(newToolCalls[1].arguments)
       = Stringify(executed[Len(executed)].arguments)

\* C34: when, within one loop iteration, the follow-up turn has no text after
\* cleaning and its first call repeats the last call of the batch just
\* executed, the completion notice is emitted as a chunk, the loop is left,
\* none of the follow-up turn's calls is executed, and onComplete ends the call.
C34_DuplicateGuardStops ==
  [][/\ RepeatsLastCall =>
          /\ pc' = "finish"
          /\ events' = Append(events, "completionNotice")
          /\ executed' = executed
     /\ (pc = "finish" /\ Times(events, "completionNotice") > 0) =>
          /\ pc' = "done"
          /\ executed' = executed
          /\ streamCalls' = streamCalls
          /\ events'[Len(events')] = "onComplete"
          /\ Times(events', "onError") = 0
    ]_vars

\* a batch of two different calls was executed, the follow-up turn repeated
\* the second, and the call has ended
C34_Witness ==
  /\ pc = "done"
  /\ Len(pendingToolCalls) = 2
  /\ pendingToolCalls[1] # pendingToolCalls[2]
  /\ newToolCalls # <<>>
  /\ newToolCalls[1] = pendingToolCalls[2]
  /\ Len(executed) = 2
  /\ Times(events, "completionNotice") = 1

\* C35: every task held in runningTasks has status running and its execute
\* call has started and not yet returned; a task whose execute has returned,
\* or that cancelTask has cancelled, is not held.
C35_RunningTasksAreRunning ==
  \A t \in TaskIds :
    /\ t \in runningTasks => (tasks[t].status = "running" /\ t \in awaiting)
    /\ tasks[t].status \in Terminal => t \notin runningTasks
    /\ t \notin awaiting => t \notin runningTasks

\* one task was cancelled while its tool runs, another is held and running
C35_Witness ==
  \E t, u \in TaskIds :
    /\ tasks[t].status = "cancelled" /\ t \in awaiting
    /\ <<t, "running", TRUE>> \in cancelLog
    /\ u \in runningTasks

\* the positions of the results that report a failure
FailedAt == {k \in 1..Len(toolBatch.results) : ~Success(toolBatch.results[k])}

\* C36: executeToolCalls dispatches the calls in the order given and stops at
\* the first failure: the list returned holds one result per call up to and
\* including the first failed one, no call after that one is dispatched, and
\* without a failure there is one result per call.
C36_BatchStopsAtFirstFailure ==
  /\ toolBatch.dispatched = SubSeq(toolBatch.calls, 1, Len(toolBatch.dispatched))
  /\ Len(toolBatch.results) \in {Len(toolBatch.dispatched), Len(toolBatch.dispatched) - 1}
  /\ FailedAt \subseteq {Len(toolBatch.results)}
  /\ toolBatch.pc = "returned" =>
       /\ Len(toolBatch.results) = Len(toolBatch.dispatched)
       /\ FailedAt = {} => Len(toolBatch.results) = Len(toolBatch.calls)
       /\ FailedAt # {} => FailedAt = {Len(toolBatch.results)}
  /\ FailedAt # {} => toolBatch.pc = "returned"

\* a list of three calls whose second failed has returned two results
C36_Witness ==
  /\ toolBatch.pc = "returned"
  /\ Len(toolBatch.calls) = 3
  /\ Len(toolBatch.results) = 2
  /\ Success(toolBatch.results[1])
  /\ ~Success(toolBatch.results[2])

\* the tool events a socket has received
ToolEvents == {"toolCall", "toolResult"}

\* C37: with two sockets, each with a session of its own, the tool-call and
\* tool-result events of a session reach only the socket that sent the
\* message, and that socket receives one tool-result event per executed call.
C37_ToolEventsStayOnTheirSocket ==
  \A s \in Sockets :
    /\ \A k \in 1..Len(sockets[s].received) :
         sockets[s].received[k].name \in ToolEvents
           => sockets[s].received[k].session = s
    /\ sockets[s].pc \in {"turn", "done"} =>
         Cardinality({k \in 1..Len(sockets[s].received) :
                        sockets[s].received[k].name = "toolResult"})
           = sockets[s].calls

\* the texts of the turns that had any after cleaning, in order
TurnTexts ==
  LET spoken == SelectSeq(turns, LAMBDA t : t.text # <<>>)
  IN [k \in 1..Len(spoken) |-> spoken[k].text]

\* the messages of the log with the given role
WithRole(role) == SelectSeq(Log, LAMBDA msg : msg.role = role)

\* C38: the completion notice and the truncation notice are sent as stream
\* chunks only and never stored: whatever notices were emitted, the session
\* log, and so the list sent with streamEnd, holds the user message, one
\* assistant message per turn that had text, and the tool results, nothing else.
C38_NoticesNotLogged ==
  (ExistingSession /\ pc # "begin") =>
    /\ Len(WithRole("user")) = 1
    /\ [k \in 1..Len(AssistantMessages) |-> AssistantMessages[k].content] = TurnTexts
    /\ Len(WithRole("system")) <= Len(executed)
    /\ Len(Log) = 1 + Len(AssistantMessages) + Len(WithRole("system"))
    /\ pc = "done" => StreamEndMessages = Log

\* a run that emitted both notices has ended with assistant text in its log
C38_Witness ==
  /\ pc = "done"
  /\ ExistingSession
  /\ Times(events, "completionNotice") = 1
  /\ Times(events, "truncationNotice") = 1
  /\ Len(AssistantMessages) >= 1

\* C39: retry waits delayMs * k after the k-th failed attempt and before
\* attempt k+1, a wait that grows linearly, and it does not wait after the
\* last failed attempt: a call that throws has waited maxRetries - 1 times.
C39_LinearBackoff ==
  /\ \A k \in 1..Len(retry.delays) : retry.delays[k] = retry.delayMs * k
  /\ Len(retry.attempts) >= 1 =>
       Len(retry.delays) \in {Len(retry.attempts) - 1, Len(retry.attempts)}
  /\ retry.pc = "delay" =>
       /\ Len(retry.delays) = Cardinality(FailedAttempts)
       /\ Len(retry.delays) < retry.maxRetries
  /\ retry.pc \in {"await", "returned"} =>
       Len(retry.delays) = Len(retry.attempts) - 1
  /\ (retry.pc = "thrown" /\ retry.maxRetries >= 1) =>
       Len(retry.delays) = retry.maxRetries - 1

\* a call with the default limit and delay has thrown after waits of 1000 and 2000
C39_Witness ==
  /\ retry.pc = "thrown"
  /\ retry.maxRetries = DefaultMaxRetries
  /\ retry.delayMs = DefaultDelayMs
  /\ retry.delays = <<DefaultDelayMs, 2 * DefaultDelayMs>>

\* the messages sent whose streamEnd or error the client has not received
InFlight == client.sent - client.ended

\* C40: the client never has two messages in flight: once sendMessage has sent
\* a message, no further message is sent until the streamEnd or error event
\* of the first has been received, also not before streamStart arrives.
C40_OneMessageInFlight == InFlight <= 1

====
